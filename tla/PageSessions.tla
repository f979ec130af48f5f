---------------------------- MODULE PageSessions ----------------------------
(***************************************************************************)
(* Which VTOP session a page comes from in UDP mode.  The session goes to  *)
(* the gateway once and is then named by its hash, which both sides have   *)
(* to remember: the phone in its page-session file (rust/src/api/wire.rs), *)
(* the gateway for each device, of which it keeps only so many             *)
(* (vtop-gateway).  A session VTOP dropped is renewed inside the fetch by  *)
(* a sign-in at the edge, and the app adopts it (server_vtop.dart).        *)
(*                                                                         *)
(* A fetch is one or two exchanges.  The gateway's part of one goes on     *)
(* after the phone gave up on it, and fetches of a phone interleave.       *)
(* Meanwhile hours pass, VTOP drops sessions, the gateway restarts, the    *)
(* student signs out and another in, or stops sign-ins by the server.      *)
(***************************************************************************)
EXTENDS Naturals, FiniteSets, Sequences

CONSTANTS Phones, Accounts,
          Others,      \* devices that only take the gateway's room
          Fetches,     \* fetches at a time
          MaxSessions, \* VTOP sessions ever made
          Capacity,    \* MAX_SESSIONS: devices the gateway keeps one for
          Resend,      \* SESSION_RESEND_MS and SESSION_KEEP, in units of
          Keep,        \* time longer than an exchange ("hours")
          Budget,      \* for what happens around the fetches,
          HourCosts,   \* of which an hour takes this much and anything
          EventCosts   \* else that much

ASSUME LimitsAssumption == /\ MaxSessions \in Nat /\ Capacity \in Nat \ {0}
                           /\ Budget \in Nat
ASSUME HoursAssumption == Resend \in Nat /\ Keep \in Nat /\ Resend + 1 < Keep
                          /\ HourCosts \in Nat \ {0} /\ EventCosts \in Nat \ {0}

VARIABLES
  spent,   \* of the budget
  now,     \* hours
  owner,   \* the accounts of the sessions 1..Len(owner) made so far
  dead,    \* sessions VTOP dropped
  edge,    \* the session the edge keeps for each account
  user,    \* the account signed in on each phone
  wants,   \* phones for which the server may sign in
  phone,   \* the session of each phone's client
  sent,    \* the page-session file: the session last sent, and when
  kept,    \* Engine.sessions: Kept of each device
  fetch,   \* each fetch, with the gateway's part of its exchange
  mixed,   \* phones that ever sent a session with another's account, or
           \* adopted the session of another account,
  misled   \* or noted as sent one that a busy gateway did not keep

vars == <<spent, now, owner, dead, edge, user, wants, phone, sent, kept, fetch, mixed, misled>>

NoSession == 0
Idle == [pc |-> "idle"]
NoAccount == "none"
Elsewhere == MaxSessions + 1  \* the session of another device
Devices == Phones \cup Others
Sessions == 1..MaxSessions
Made == 1..Len(owner)

AtGateway == {"engine", "sign_in", "again"}

\* The gateway's answers: the page; no page, with a status of 500 or more, or
\* under 500 when the gateway is busy, the page too large or the password
\* rejected ("refused"); the session is dead or not held.
Answers == {"page", "failed", "refused", "expired", "need_session"}

\* "of" is the phone, "named" the session the fetch is for, "may" the account
\* to send along with it, "carries" whether it is sent or only its hash; "on"
\* and "account" are the gateway's, "renewed" the session it made; "gone" says
\* the phone gave up, "crossed" that an hour struck meanwhile.
Fetching == [pc: {"begun", "asked", "answered", "adopt"} \cup AtGateway, of: Phones, named: Sessions,
             may: Accounts \cup {NoAccount}, carries: BOOLEAN, on: {NoSession} \cup Sessions,
             account: Accounts \cup {NoAccount}, renewed: {NoSession} \cup Sessions,
             answer: Answers \cup {"none"}, gone: BOOLEAN, crossed: BOOLEAN]

\* An entry of Engine.sessions; without a session there is none.
Kept == [session: {NoSession, Elsewhere} \cup Made, account: Accounts \cup {NoAccount}, at: 0..now]
Nothing == [session |-> NoSession, account |-> NoAccount, at |-> 0]
Holding == {p \in Devices : kept[p] # Nothing}

TypeOK ==
  /\ spent \in 0..Budget /\ now \in 0..spent
  /\ owner \in Seq(Accounts) /\ Len(owner) <= MaxSessions
  /\ dead \subseteq Made
  /\ edge \in [Accounts -> {NoSession} \cup Made]
  /\ \A a \in Accounts : edge[a] # NoSession => owner[edge[a]] = a
  /\ user \in [Phones -> Accounts]
  /\ wants \subseteq Phones /\ mixed \subseteq Phones /\ misled \subseteq Phones
  /\ phone \in [Phones -> {NoSession} \cup Made]
  /\ sent \in [Phones -> [session: {NoSession} \cup Made, at: 0..now]]
  /\ kept \in [Devices -> Kept]
  /\ Cardinality(Holding) <= Capacity
  /\ \A f \in Fetches :
       \/ fetch[f] = Idle
       \/ fetch[f] \in [pc: {"expired"}, of: Phones]
       \/ fetch[f] \in Fetching

Init ==
  /\ spent = 0 /\ now = 0
  /\ owner = << >> /\ dead = {}
  /\ edge = [a \in Accounts |-> NoSession]
  /\ user \in [Phones -> Accounts]
  /\ wants = Phones
  /\ phone = [p \in Phones |-> NoSession]
  /\ sent = [p \in Phones |-> [session |-> NoSession, at |-> 0]]
  /\ kept = [p \in Devices |-> Nothing]
  /\ mixed = {} /\ misled = {}
  /\ fetch = [f \in Fetches |-> Idle]

(***************************************************************************)
(* Helpers.                                                                *)
(***************************************************************************)
World == <<spent, now, dead, user, wants, mixed, misled>>
Vtop == <<owner, edge>>

At(f, pc) == fetch[f].pc = pc
Running(f) == fetch[f].pc \notin {"idle", "expired"}
Exchanging(f) == Running(f) /\ ~At(f, "begun")

\* Mutant of GatewayHas: for as long as the gateway keeps it.
AsLongAsKept(p, s) == sent[p].session = s /\ now - sent[p].at <= Keep

\* gateway_has
GatewayHas(p, s) == sent[p].session = s /\ now - sent[p].at < Resend

Ends(f) == fetch' = [fetch EXCEPT ![f] = Idle]

\* A sign-in at the edge or by the phone: the session the edge keeps for
\* account a if VTOP still takes it, or a new one.
SignedIn(a, byServer, s) ==
  IF byServer /\ edge[a] \notin dead \cup {NoSession}
  THEN s = edge[a] /\ UNCHANGED Vtop
  ELSE /\ Len(owner) < MaxSessions
       /\ s = Len(owner) + 1
       /\ owner' = Append(owner, a)
       /\ edge' = IF byServer THEN [edge EXCEPT ![a] = s] ELSE edge

\* Engine::keep: to make room for a new device, the stalest is forgotten.
\* Mutant: none is.
KeepsAll(p, s, a) == kept' = [kept EXCEPT ![p] = [session |-> s, account |-> a, at |-> now]]

Keeps(p, s, a) ==
  LET new == [session |-> s, account |-> a, at |-> now]
  IN IF Cardinality(Holding) >= Capacity /\ p \notin Holding
     THEN \E q \in Holding :
            /\ \A r \in Holding : kept[q].at <= kept[r].at
            /\ kept' = [kept EXCEPT ![q] = Nothing, ![p] = new]
     ELSE kept' = [kept EXCEPT ![p] = new]

(***************************************************************************)
(* The phone.                                                              *)
(***************************************************************************)
\* ServerVtopBackend.fetch: the client's session.
Start(f, p) ==
  /\ fetch[f] = Idle /\ phone[p] # NoSession
  /\ fetch' = [fetch EXCEPT ![f] =
       [pc |-> "begun", of |-> p, named |-> phone[p], may |-> NoAccount, carries |-> FALSE,
        on |-> NoSession, account |-> NoAccount, renewed |-> NoSession,
        answer |-> "none", gone |-> FALSE, crossed |-> FALSE]]
  /\ UNCHANGED <<World, Vtop, phone, sent, kept>>

\* ServerVtopApi.fetch and fetch_page: the account of the student there is by
\* now, when the server may sign in for it; both go into the first request
\* only if the gateway was not sent the session lately.
Ask(f) ==
  LET p == fetch[f].of
      may == IF p \in wants THEN user[p] ELSE NoAccount
      carries == ~GatewayHas(p, fetch[f].named)
  IN /\ At(f, "begun")
     /\ fetch' = [fetch EXCEPT ![f].pc = "asked", ![f].may = may, ![f].carries = carries,
                    ![f].account = IF carries THEN may ELSE NoAccount]
     /\ mixed' = mixed \cup (IF may \in {NoAccount, owner[fetch[f].named]} THEN {} ELSE {p})
     /\ UNCHANGED <<spent, now, dead, user, wants, misled, Vtop, phone, sent, kept>>

\* fetch_page goes on with the answer: asked for the session it sends it,
\* once; otherwise it notes what the gateway holds now.
Notes(f) ==
  LET r == fetch[f]
      note(s) == [sent EXCEPT ![fetch[f].of] = [session |-> s, at |-> now]]
  IN sent' = IF r.renewed # NoSession THEN note(r.renewed)
             ELSE IF r.carries /\ r.answer \notin {"need_session", "failed"} THEN note(r.named)
             ELSE sent

AsksAgain(f) == fetch[f].answer = "need_session" /\ ~fetch[f].carries

\* A dead session has the phone sign in again (ReloginVtopBackend).  A page
\* the gateway did not send may come over HTTPS, which is not modelled.
Finishes(f) ==
  IF fetch[f].answer = "expired"
  THEN fetch' = [fetch EXCEPT ![f] = [pc |-> "expired", of |-> fetch[f].of]]
  ELSE Ends(f)

Hear(f) ==
  /\ At(f, "answered") /\ ~fetch[f].gone
  /\ \/ /\ AsksAgain(f)
        /\ fetch' = [fetch EXCEPT ![f].pc = "asked", ![f].carries = TRUE,
                       ![f].account = fetch[f].may, ![f].answer = "none"]
        /\ UNCHANGED sent
     \/ /\ ~AsksAgain(f)
        /\ Notes(f)
        /\ IF fetch[f].renewed # NoSession
           THEN fetch' = [fetch EXCEPT ![f].pc = "adopt"]
           ELSE Finishes(f)
  /\ UNCHANGED <<World, Vtop, phone, kept>>

\* ServerVtopApi.fetch hands a renewed session to adoptSession, which waits
\* for the client.
Adopt(f) ==
  /\ At(f, "adopt")
  /\ phone' = [phone EXCEPT ![fetch[f].of] = fetch[f].renewed]
  /\ Finishes(f)
  /\ mixed' = mixed \cup {p \in {fetch[f].of} : owner[fetch[f].renewed] # user[p]}
  /\ UNCHANGED <<spent, now, dead, user, wants, misled, Vtop, sent, kept>>

\* The deadline of a fetch; the gateway does not learn of it.
GiveUp(f) ==
  /\ fetch[f].pc \in {"asked"} \cup AtGateway /\ ~fetch[f].gone
  /\ fetch' = [fetch EXCEPT ![f].gone = TRUE, ![f].may = NoAccount]
  /\ UNCHANGED <<World, Vtop, phone, sent, kept>>

\* A request that is not sent, or a request or an answer that does not come,
\* or comes to nobody.
Lost(f) ==
  /\ At(f, "begun") \/ At(f, "asked") \/ At(f, "answered")
  /\ Ends(f)
  /\ UNCHANGED <<World, Vtop, phone, sent, kept>>

\* ReloginVtopBackend, and the first sign-in: by the server or the phone, or
\* in vain.
SignsIn(p) ==
  \E s \in Sessions, byServer \in {FALSE} \cup {p \in wants} :
    SignedIn(user[p], byServer, s) /\ phone' = [phone EXCEPT ![p] = s]

SignIn(p) ==
  /\ phone[p] = NoSession
  /\ SignsIn(p)
  /\ UNCHANGED <<World, sent, kept, fetch>>

Relogin(f) ==
  /\ At(f, "expired")
  /\ SignsIn(fetch[f].of) \/ UNCHANGED <<Vtop, phone>>
  /\ Ends(f)
  /\ UNCHANGED <<World, sent, kept>>

(***************************************************************************)
(* The gateway.                                                            *)
(***************************************************************************)
Answered(f, answer) ==
  fetch' = [fetch EXCEPT ![f].pc = "answered", ![f].answer = answer, ![f].account = NoAccount,
              ![f].on = IF answer = "page" THEN @ ELSE NoSession]

\* run: MAX_ENGINE_CALLS calls of all the devices are under way.
Busy(f) ==
  /\ At(f, "asked")
  /\ Answered(f, "refused")
  /\ misled' = misled \cup {p \in {fetch[f].of} : fetch[f].carries}
  /\ UNCHANGED <<spent, now, dead, user, wants, mixed, Vtop, phone, sent, kept>>

\* Engine::session on a request that has only a hash.  Mutant: the device's
\* session is the one meant.
HoldsAny(p, s) == kept[p] # Nothing /\ now - kept[p].at <= Keep

Holds(p, s) == kept[p].session = s /\ now - kept[p].at <= Keep

Serve(f) ==
  LET p == fetch[f].of
      s == fetch[f].named
      on(session, account) ==
        fetch' = [fetch EXCEPT ![f].pc = "engine", ![f].on = session, ![f].account = account]
  IN /\ At(f, "asked")
     /\ \/ /\ fetch[f].carries
           /\ Keeps(p, s, fetch[f].account)
           /\ on(s, fetch[f].account)
        \/ /\ ~fetch[f].carries /\ Holds(p, s)
           /\ kept' = [kept EXCEPT ![p].at = now]
           /\ on(kept[p].session, kept[p].account)
        \/ /\ ~fetch[f].carries /\ ~Holds(p, s)
           /\ Answered(f, "need_session")
           /\ UNCHANGED kept
     /\ UNCHANGED <<World, Vtop, phone, sent>>

\* Engine::fetch, and what follows it: the page, which may be too large (the
\* answer is then another one, without the renewed session); an expired
\* session, renewed once if an account came with it; or no page.
Fetch(f) ==
  /\ At(f, "engine") \/ At(f, "again")
  /\ \/ /\ fetch[f].on \notin dead
        /\ \/ Answered(f, "page")
           \/ fetch' = [fetch EXCEPT ![f].pc = "answered", ![f].answer = "refused",
                          ![f].account = NoAccount, ![f].on = NoSession,
                          ![f].renewed = NoSession]
     \/ /\ fetch[f].on \in dead
        /\ IF At(f, "engine") /\ fetch[f].account # NoAccount
           THEN fetch' = [fetch EXCEPT ![f].pc = "sign_in"]
           ELSE Answered(f, "expired")
     \/ Answered(f, "failed")
  /\ UNCHANGED <<World, Vtop, phone, sent, kept>>

\* Engine::renewed: a rejected password goes back as it is, any other failure
\* as the expired answer.
Renew(f) ==
  /\ At(f, "sign_in")
  /\ \/ \E s \in Sessions :
          /\ SignedIn(fetch[f].account, TRUE, s)
          /\ Keeps(fetch[f].of, s, fetch[f].account)
          /\ fetch' = [fetch EXCEPT ![f].pc = "again", ![f].on = s, ![f].renewed = s]
     \/ /\ \/ Answered(f, "refused")
           \/ Answered(f, "expired")
        /\ UNCHANGED <<Vtop, kept>>
  /\ UNCHANGED <<World, phone, sent>>

(***************************************************************************)
(* What happens around the fetches.                                        *)
(***************************************************************************)
Happens(cost) == spent + cost <= Budget /\ spent' = spent + cost

\* Engine::sweep; an entry it would remove is no longer taken either.
Sweep ==
  /\ \E p \in Holding : now - kept[p].at >= Keep
  /\ kept' = [p \in Devices |-> IF now - kept[p].at < Keep THEN kept[p] ELSE Nothing]
  /\ UNCHANGED <<World, Vtop, phone, sent, fetch>>

\* The gateway forgets everything, and what it was doing is never answered.
Restart ==
  /\ Happens(EventCosts)
  /\ kept' = [p \in Devices |-> Nothing]
  /\ fetch' = [f \in Fetches |-> IF fetch[f].pc \in AtGateway THEN Idle
                                 ELSE fetch[f]]
  /\ UNCHANGED <<now, dead, user, wants, Vtop, phone, sent, mixed, misled>>

\* Another device sends its session.
OtherSends(q) ==
  /\ Happens(EventCosts)
  /\ q \notin Holding
  /\ Keeps(q, Elsewhere, NoAccount)
  /\ UNCHANGED <<now, dead, user, wants, Vtop, phone, sent, fetch, mixed, misled>>

Drop(s) ==
  /\ Happens(EventCosts)
  /\ s \notin dead
  /\ dead' = dead \cup {s}
  /\ UNCHANGED <<now, user, wants, Vtop, phone, sent, kept, fetch, mixed, misled>>

\* An exchange, and the gateway's part of it, lasts minutes, so no two hours
\* strike in it.
Hour ==
  /\ Happens(HourCosts)
  /\ \A f \in Fetches : Exchanging(f) => ~fetch[f].crossed
  /\ now' = now + 1
  /\ fetch' = [f \in Fetches |-> IF Exchanging(f) THEN [fetch[f] EXCEPT !.crossed = TRUE]
                                 ELSE fetch[f]]
  /\ UNCHANGED <<dead, user, wants, mixed, misled, Vtop, phone, sent, kept>>

\* The student signs out and another in, whose client has no session yet.
Switch(p, a) ==
  /\ Happens(EventCosts)
  /\ a # user[p]
  /\ user' = [user EXCEPT ![p] = a]
  /\ phone' = [phone EXCEPT ![p] = NoSession]
  /\ UNCHANGED <<now, dead, wants, Vtop, sent, kept, fetch, mixed, misled>>

Allow(p) ==
  /\ Happens(EventCosts)
  /\ wants' = IF p \in wants THEN wants \ {p} ELSE wants \cup {p}
  /\ UNCHANGED <<now, dead, user, Vtop, phone, sent, kept, fetch, mixed, misled>>

AtPhone(f) == Ask(f) \/ Hear(f) \/ Adopt(f) \/ Relogin(f)
Gateway(f) == Serve(f) \/ Fetch(f) \/ Renew(f)

Next ==
  \/ \E f \in Fetches : AtPhone(f) \/ GiveUp(f) \/ Lost(f) \/ Busy(f) \/ Gateway(f)
  \/ \E p \in Phones : SignIn(p) \/ Allow(p) \/ \E f \in Fetches : Start(f, p)
  \/ \E p \in Phones, a \in Accounts : Switch(p, a)
  \/ \E s \in Made : Drop(s)
  \/ \E q \in Others : OtherSends(q)
  \/ Sweep \/ Restart \/ Hour

Spec == Init /\ [][Next]_vars

(***************************************************************************)
(* Properties.                                                             *)
(***************************************************************************)
\* A page is from the account whose session the fetch named: from that
\* session or one made for its account, whatever the device's other fetches
\* left with the gateway, and whoever signed in on the phone since.  Except
\* on a phone that once mixed two accounts, when a student left and another
\* came while a fetch was on its way: the session is read before the account
\* that is sent with it, and adoptSession gives a renewed session to the
\* client there is when it comes.
OwnPages ==
  \A f \in Fetches :
    At(f, "answered") /\ fetch[f].answer = "page" /\ fetch[f].of \notin mixed
      => owner[fetch[f].on] = owner[fetch[f].named]

\* "Resend the session after this, a little inside the gateway's six hours":
\* when the gateway gets a request that only names a session, it has not kept
\* that session for too long, though the phone counts from when it heard that
\* the session arrived and the request takes its time.  Except from a phone
\* told by a busy gateway to use HTTPS: fetch_page notes the session as sent
\* then too.
NamedInTime ==
  \A f \in Fetches :
    LET p == fetch[f].of
    IN /\ At(f, "asked") /\ ~fetch[f].carries /\ p \notin misled
       /\ kept[p].session = fetch[f].named
       => now - kept[p].at < Keep
=============================================================================

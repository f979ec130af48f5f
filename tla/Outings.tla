------------------------------ MODULE Outings -------------------------------
(***************************************************************************)
(* The outing tools of the MCP server: applying and cancelling in two      *)
(* calls, the first of which only hands out a confirmation code (vtop-mcp, *)
(* outings.rs), on sessions the server keeps for each key (CachedSessions) *)
(* and fetches from the edge, with one retry on a fresh one (with_retry),  *)
(* and the two requests of VTOP's own page behind a send (vtop-core,       *)
(* hostel.rs).                                                             *)
(*                                                                         *)
(* Calls run side by side and interleave at their awaits.  Meanwhile VTOP  *)
(* drops sessions, fails or answers too late, the mentor accepts a         *)
(* request, the student files one from the phone or forbids a key to act.  *)
(***************************************************************************)
EXTENDS Naturals, FiniteSets

CONSTANTS MaxCalls,   \* tool calls ever made
          Keys,       \* the access keys of one account
          Requests,   \* the applications an agent may ask for
          Trip,       \* what the check before a send compares of them: place
                      \* and leaving date, or the date of a weekend outing
          Confirm,    \* CONFIRM_SECONDS
          MaxEvents,  \* how much happens around the calls
          MaxIds,     \* rows VTOP ever adds
          MaxSessions \* sessions the edge ever makes

ASSUME TripAssumption == DOMAIN Trip = Requests
ASSUME BoundsAssumption == Confirm \in Nat /\ MaxEvents \in Nat /\ MaxIds \in Nat
                           /\ MaxCalls \in Nat /\ MaxSessions \in Nat \ {0}

VARIABLES
  events,   \* what happened around the calls so far
  now,      \* seconds
  rows,     \* VTOP's list of the student's requests
  added,    \* rows added so far
  late,     \* sends VTOP has yet to handle, whose calls gave up
  dead,     \* sessions VTOP dropped
  made,     \* sessions the edge made: 1..made
  edge,     \* the session the edge keeps
  kept,     \* CachedSessions.kept
  allowed,  \* keys the student lets act on outings
  codes,    \* confirmation codes handed out
  call,     \* each tool call
  raced     \* trips looked for in a list that could not show an earlier send

vars == <<events, now, rows, added, late, dead, made, edge, kept, allowed, codes, call, raced>>

NoSession == 0
Student == "student"
Calls == 1..MaxCalls  \* numbered as they begin
Sessions == 1..MaxSessions
Ids == 1..MaxIds

\* A request in VTOP's list; it has a cancel_id only while it waits.
Row == [id: Ids, req: Requests, by: Keys \cup {Student}, waits: BOOLEAN]

\* What a call asks for: an application or the cancellation of a row.
Applying == [op: {"apply"}, what: Requests]
Cancelling == [op: {"cancel"}, what: Ids]
Asks == Applying \cup Cancelling

Code == [key: Keys, ask: Asks, expires: Nat]

Running == {"session", "fetch", "fetched", "expire", "look", "check", "form", "post"}
Results == {"shown", "applied", "not_applied", "cancelled", "not_cancelled", "refused", "error"}

TypeOK ==
  /\ events \in 0..MaxEvents
  /\ now \in 0..events
  /\ rows \subseteq Row
  /\ added \in 0..MaxIds
  /\ late \subseteq [key: Keys, ask: Asks, began: Nat]
  /\ dead \subseteq 1..made /\ made \in 0..MaxSessions
  /\ edge \in 0..made
  /\ kept \in [Keys -> 0..made]
  /\ allowed \subseteq Keys
  /\ codes \subseteq Code
  /\ \A c \in Calls :
       \/ call[c] = [pc |-> "free"]
       \/ /\ call[c] \in [pc: Running, key: Keys, ask: Asks, sends: BOOLEAN, began: Nat,
                          session: 0..made, retried: BOOLEAN, seen: SUBSET Row]
          /\ call[c].pc \in {"look", "check", "form", "post"} => call[c].session # NoSession
       \/ call[c] \in [pc: Results, fair: BOOLEAN, listed: BOOLEAN, done: BOOLEAN]
  /\ raced \subseteq {Trip[r] : r \in Requests}
  /\ \A r, q \in rows : r.id = q.id => r = q

Init ==
  /\ events = 0 /\ now = 0 /\ rows = {} /\ added = 0 /\ late = {} /\ dead = {}
  /\ made = 0 /\ edge = NoSession
  /\ kept = [k \in Keys |-> NoSession]
  /\ allowed = Keys
  /\ codes = {}
  /\ call = [c \in Calls |-> [pc |-> "free"]]
  /\ raced = {}

(***************************************************************************)
(* Helpers.                                                                *)
(***************************************************************************)
Others == <<events, now, allowed>>
VtopKeeps == <<rows, added, late, dead, raced>>
SessionsKeep == <<made, edge, kept>>

At(c, pc) == call[c].pc = pc
Goes(c, pc) == call' = [call EXCEPT ![c].pc = pc]

\* The call's answer, and what was so when VTOP handled its last send: the
\* list was the form's and the page true (fair), the page had the list
\* (listed), VTOP did what it was asked (done).
Ended(result, fair, listed, done) ==
  [pc |-> result, fair |-> fair, listed |-> listed, done |-> done]
Ends(c, result) == call' = [call EXCEPT ![c] = Ended(result, FALSE, FALSE, FALSE)]

Sent(c) == call[c].ask.what
Works(c) == call[c].session \notin dead

\* The request a call sends to VTOP.
Send(c) == [key |-> call[c].key, ask |-> call[c].ask, began |-> call[c].began]

\* The row a call is to cancel, while VTOP lets it be cancelled.
Cancellable(id) == {r \in rows : r.id = id /\ r.waits}

\* check_confirmation; the fields of the code are those of the request.
\* Mutant: a code never lapses.
Forever(code, key, ask) == code.key = key /\ code.ask = ask

Confirmed(code, key, ask) ==
  code.expires >= now /\ code.key = key /\ code.ask = ask

(***************************************************************************)
(* A call begins: the key may act on outings (outing_caller), and a code   *)
(* that comes with it is good.  Without a code the call only looks.        *)
(***************************************************************************)
Begins(c, key, ask, sends) ==
  call' = [call EXCEPT ![c] =
    [pc |-> "session", key |-> key, ask |-> ask, sends |-> sends, began |-> now,
     session |-> NoSession, retried |-> FALSE, seen |-> {}]]

Begin(c) ==
  /\ At(c, "free") /\ \A d \in 1..(c - 1) : ~At(d, "free")
  /\ \E key \in allowed, ask \in Asks :
       \/ Begins(c, key, ask, FALSE)
       \/ /\ \E code \in codes : Confirmed(code, key, ask)
          /\ Begins(c, key, ask, TRUE)
  /\ UNCHANGED <<Others, VtopKeeps, SessionsKeep, codes>>

(***************************************************************************)
(* CachedSessions.session and the edge behind it.                          *)
(***************************************************************************)
\* with_retry's call on session s.
Tries(c, s) ==
  call' = [call EXCEPT ![c].session = s,
             ![c].pc = IF ~call[c].sends THEN "look"
                       ELSE IF call[c].ask.op = "apply" THEN "check" ELSE "form"]

\* A kept session is used without asking the edge.  Mutant: and an empty slot.
KeptOrEmpty(c) ==
  /\ At(c, "session")
  /\ Tries(c, kept[call[c].key])
  /\ UNCHANGED <<Others, VtopKeeps, SessionsKeep, codes>>

Session(c) ==
  /\ At(c, "session")
  /\ LET s == kept[call[c].key]
     IN IF s # NoSession THEN Tries(c, s) ELSE Goes(c, "fetch")
  /\ UNCHANGED <<Others, VtopKeeps, SessionsKeep, codes>>

\* The edge hands out the session it keeps if VTOP still takes it, or has a
\* new one made; or there is none to be had.
Fetch(c) ==
  /\ At(c, "fetch")
  /\ \/ \E s \in Sessions :
          /\ IF edge # NoSession /\ edge \notin dead
             THEN s = edge /\ UNCHANGED made
             ELSE s = made + 1 /\ made' = s
          /\ edge' = s
          /\ call' = [call EXCEPT ![c].session = s, ![c].pc = "fetched"]
     \/ Ends(c, "error") /\ UNCHANGED <<made, edge>>
  /\ UNCHANGED <<Others, VtopKeeps, kept, codes>>

\* Its answer arrives, whatever happened meanwhile.
Fetched(c) ==
  /\ At(c, "fetched")
  /\ kept' = [kept EXCEPT ![call[c].key] = call[c].session]
  /\ Tries(c, call[c].session)
  /\ UNCHANGED <<Others, VtopKeeps, made, edge, codes>>

\* with_retry: the first SessionExpired or VtopServerError of a call drops
\* the kept session, here and then at the edge; a second is its result.
OnceMore(c) == ~call[c].retried

Rejected(c) ==
  \/ /\ OnceMore(c)
     /\ call' = [call EXCEPT ![c].retried = TRUE, ![c].pc = "expire"]
     /\ kept' = [kept EXCEPT ![call[c].key] = NoSession]
  \/ ~OnceMore(c) /\ Ends(c, "error") /\ UNCHANGED kept

Expire(c) ==
  /\ At(c, "expire")
  /\ \/ Goes(c, "session") /\ edge' = NoSession
     \/ Ends(c, "error") /\ UNCHANGED edge
  /\ UNCHANGED <<Others, VtopKeeps, made, kept, codes>>

(***************************************************************************)
(* A page of VTOP that does not come: the session is dead or VTOP answered *)
(* with an error, which is tried again; or no answer, which is not.        *)
(***************************************************************************)
NoPage(c) ==
  /\ \/ Rejected(c)
     \/ Works(c) /\ Ends(c, "error") /\ UNCHANGED kept
  /\ UNCHANGED <<Others, VtopKeeps, made, edge, codes>>

\* The first call: the request is checked against a fresh copy of VTOP's
\* form, or the row looked up in its list.
Look(c) ==
  /\ At(c, "look")
  /\ \/ /\ Works(c)
        /\ \/ /\ call[c].ask.op = "apply" \/ Cancellable(Sent(c)) # {}
              /\ codes' = codes \cup {[key |-> call[c].key, ask |-> call[c].ask,
                                       expires |-> now + Confirm]}
              /\ Ends(c, "shown")
           \/ Ends(c, "refused") /\ UNCHANGED codes
        /\ UNCHANGED <<Others, VtopKeeps, SessionsKeep>>
     \/ NoPage(c)

(***************************************************************************)
(* The second call of an application re-reads the list: "A second send of  *)
(* the same code (or a retry after VTOP dropped the session mid-send) must *)
(* not file it twice."  A page without the table is an empty list to       *)
(* request_rows.  Mutant: it trusts the first call's look.                 *)
(***************************************************************************)
Lists == {rows, {}}

NeverListed(list, req) == FALSE

Listed(list, req) == \E r \in list : Trip[r.req] = Trip[req]

\* VTOP has the trip, and its page does not show it.
Hidden(list, req) == Listed(rows, req) /\ ~Listed(list, req)

\* Another send for the trip has read the list and is not handled yet.
SendUnderWay(c, req) ==
  \/ \E m \in late : m.ask.op = "apply" /\ Trip[m.ask.what] = Trip[req]
  \/ \E d \in Calls \ {c} :
       /\ call[d].pc \in {"form", "post"}
       /\ call[d].ask.op = "apply" /\ Trip[Sent(d)] = Trip[req]

Check(c) ==
  /\ At(c, "check")
  /\ \/ /\ Works(c)
        /\ \E list \in Lists :
             /\ IF Listed(list, Sent(c)) THEN Ends(c, "refused") ELSE Goes(c, "form")
             /\ raced' = raced \cup (IF SendUnderWay(c, Sent(c)) \/ Hidden(list, Sent(c))
                                    THEN {Trip[Sent(c)]} ELSE {})
        /\ UNCHANGED <<Others, rows, added, late, dead, SessionsKeep, codes>>
     \/ NoPage(c)

\* apply_general_outing, cancel_general_outing and their weekend twins load
\* VTOP's page themselves: its form may be closed or not take the request,
\* and only a row that has a cancel_id, in the page's list, is cancelled.
Form(c) ==
  /\ At(c, "form")
  /\ \/ /\ Works(c)
        /\ \/ \E list \in Lists :
                /\ call[c].ask.op = "apply" \/ Cancellable(Sent(c)) \cap list # {}
                /\ call' = [call EXCEPT ![c].pc = "post", ![c].seen = list]
           \/ Ends(c, "refused")
        /\ UNCHANGED <<Others, VtopKeeps, SessionsKeep, codes>>
     \/ NoPage(c)

(***************************************************************************)
(* VTOP handles a send: it files the application or not, deletes the row   *)
(* if it still waits or not, and answers with its list.                    *)
(***************************************************************************)
Filed(key, req) ==
  /\ added < MaxIds
  /\ added' = added + 1
  /\ rows' = rows \cup {[id |-> added + 1, req |-> req, by |-> key, waits |-> TRUE]}

Handled(send) ==
  \/ send.ask.op = "apply" /\ Filed(send.key, send.ask.what)
  \/ /\ send.ask.op = "cancel"
     /\ rows' = rows \ Cancellable(send.ask.what)
     /\ UNCHANGED added
  \/ UNCHANGED <<rows, added>>

(***************************************************************************)
(* VTOP's page after a send: a notice of an error, or a text in its        *)
(* "success" input, whether or not it did what was asked, and its list or  *)
(* none.                                                                   *)
(***************************************************************************)
Pages == [notice: BOOLEAN, success: BOOLEAN, list: BOOLEAN]

\* Its words are true.
Truthful(page) ==
  /\ page.notice => rows' = rows
  /\ page.success => rows' # rows

\* parse_apply_response: one request more than the form's page had, unless
\* the page says.  Mutant: any request in the list.
AnyRow(c, page) == page.list /\ rows' # {}

OneMore(c, page) == page.list /\ Cardinality(rows') > Cardinality(call[c].seen)

Applied(c, page) == ~page.notice /\ (page.success \/ OneMore(c, page))

\* parse_cancel_response: no row of the list carries the cancel_id any more.
NoneCarries(id) == \A r \in rows' : ~(r.id = id /\ r.waits)

Cancelled(c, page) == ~page.notice /\ page.list /\ NoneCarries(Sent(c))

Answer(c) ==
  \E page \in Pages :
    LET result == IF call[c].ask.op = "apply"
                  THEN IF Applied(c, page) THEN "applied" ELSE "not_applied"
                  ELSE IF Cancelled(c, page) THEN "cancelled" ELSE "not_cancelled"
        fair == rows = call[c].seen /\ Truthful(page)
    IN call' = [call EXCEPT ![c] = Ended(result, fair, page.list, rows' # rows)]

\* send_once: the answer; an answer lost with the session, which VTOP may
\* have dropped before or after it handled the send, or an error of VTOP's,
\* which with_retry takes up; no answer, or one that is not there yet.
Post(c) ==
  /\ At(c, "post")
  /\ \/ /\ Works(c)
        /\ Handled(Send(c))
        /\ \/ Answer(c) /\ UNCHANGED kept
           \/ Rejected(c)
           \/ Ends(c, "error") /\ UNCHANGED kept
        /\ UNCHANGED late
     \/ /\ ~Works(c)
        /\ Rejected(c)
        /\ UNCHANGED <<rows, added, late>>
     \/ /\ late' = late \cup {Send(c)}
        /\ Ends(c, "error")
        /\ UNCHANGED <<rows, added, kept>>
  /\ UNCHANGED <<Others, dead, raced, made, edge, codes>>

(***************************************************************************)
(* The world around the calls.                                             *)
(***************************************************************************)
Happens == events < MaxEvents /\ events' = events + 1

HandledLate(m) ==
  /\ late' = late \ {m}
  /\ Handled(m)
  /\ UNCHANGED <<Others, dead, raced, SessionsKeep, codes, call>>

StudentFiles(req) ==
  /\ Happens
  /\ Filed(Student, req)
  /\ UNCHANGED <<now, allowed, late, dead, raced, SessionsKeep, codes, call>>

Accept(r) ==
  /\ Happens
  /\ r.waits
  /\ rows' = (rows \ {r}) \cup {[r EXCEPT !.waits = FALSE]}
  /\ UNCHANGED <<now, allowed, added, late, dead, raced, SessionsKeep, codes, call>>

Drop(s) ==
  /\ Happens
  /\ s \notin dead
  /\ dead' = dead \cup {s}
  /\ UNCHANGED <<now, allowed, rows, added, late, raced, SessionsKeep, codes, call>>

Lapse(key) ==
  /\ Happens
  /\ kept[key] # NoSession
  /\ kept' = [kept EXCEPT ![key] = NoSession]
  /\ UNCHANGED <<now, allowed, VtopKeeps, made, edge, codes, call>>

Forbid(key) ==
  /\ Happens
  /\ key \in allowed
  /\ allowed' = allowed \ {key}
  /\ UNCHANGED <<now, VtopKeeps, SessionsKeep, codes, call>>

Tick ==
  /\ Happens
  /\ now' = now + 1
  /\ UNCHANGED <<allowed, VtopKeeps, SessionsKeep, codes, call>>

CallStep(c) ==
  \/ Session(c) \/ Fetch(c) \/ Fetched(c) \/ Expire(c)
  \/ Look(c) \/ Check(c) \/ Form(c) \/ Post(c)

Next ==
  \/ \E c \in Calls : Begin(c) \/ CallStep(c)
  \/ \E m \in late : HandledLate(m)
  \/ \E req \in Requests : StudentFiles(req)
  \/ \E r \in rows : Accept(r)
  \/ \E s \in 1..made : Drop(s)
  \/ \E key \in Keys : Lapse(key) \/ Forbid(key)
  \/ Tick

Spec == Init /\ [][Next]_vars

(***************************************************************************)
(* Properties.                                                             *)
(***************************************************************************)
\* outings.rs: "The code is bound to the caller's key and the exact request
\* and lapses after ten minutes, so the agent has to show the student this
\* request before it can file it." Whatever a tool files or cancels was
\* shown for that key, with a code still good when the call that sent it
\* began, however late VTOP handles it.
UnderWay == late \cup {Send(c) : c \in {d \in Calls : At(d, "post")}}

Shown(send) ==
  \E code \in codes :
    /\ code.key = send.key /\ code.ask = send.ask
    /\ code.expires - Confirm <= send.began /\ send.began <= code.expires

ActsAsShown ==
  [][/\ \A r \in rows' : r.by # Student /\ (\A q \in rows : q.id # r.id)
         => \E send \in UnderWay :
              send.key = r.by /\ send.ask = [op |-> "apply", what |-> r.req] /\ Shown(send)
     /\ \A r \in rows : (\A q \in rows' : q.id # r.id)
         => \E send \in UnderWay :
              send.ask = [op |-> "cancel", what |-> r.id] /\ Shown(send)]_vars

\* outings.rs: the second send of a code, or the retry of one whose answer
\* was lost, must not file it twice. It does not, unless the list was read
\* while another send for the same trip was on its way, or VTOP's page came
\* without the list.
FiledOnce ==
  \A trip \in {Trip[r] : r \in Requests} \ raced :
    Cardinality({r \in rows : r.by # Student /\ Trip[r.req] = trip}) <= 1

\* parser/hostel.rs: "the request list is the evidence". While nobody else
\* changes the list between the form and the answer, and as far as the words
\* on VTOP's page are true, what a tool says was applied or cancelled was,
\* and what it says was not, from a page with the list, was not. A page
\* without one leaves that open ("Check the list").
ReportsWhatVtopDid ==
  \A c \in Calls :
    /\ call[c].pc \in {"applied", "cancelled"} /\ call[c].fair => call[c].done
    /\ call[c].pc \in {"not_applied", "not_cancelled"} /\ call[c].fair /\ call[c].listed
         => ~call[c].done
=============================================================================

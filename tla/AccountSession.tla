--------------------------- MODULE AccountSession ---------------------------
(***************************************************************************)
(* How an Account object (vtop-edge/src/account.ts, account-state.ts)      *)
(* comes by VTOP sessions: it hands out a cached one, asks the phone, or   *)
(* has the engine sign in with saved credentials.                          *)
(*                                                                         *)
(* A handler runs on its own copy of the account row.  Storage calls do    *)
(* not suspend it; calls to the engine and to devices do, and other        *)
(* handlers run meanwhile.  So an action is what a handler does from one   *)
(* await to the next, and a call record is what it remembers across one.   *)
(* A crash of the object loses its handlers and keeps its storage.         *)
(***************************************************************************)
EXTENDS Naturals, FiniteSets

CONSTANTS
  Slots,         \* handlers that can be under way at once
  Alarm,         \* the alarm handler, which never runs beside itself
  Timeout,       \* REQUEST_TIMEOUT_SECS
  Keep,          \* REQUEST_KEEP_SECS
  Wait,          \* phoneWaitSecs
  Cache,         \* SESSION_CACHE_SECS
  Ttl,           \* vaultTtlSecs, where it is set
  Scenarios      \* bounds: what a behaviour may contain, one of these records:
                 \*   opening, alarm   : the account row and the alarm it starts with
                 \*   ops, calls       : operations that arrive, how many in all
                 \*   time, crashes    : of the clock, of the object

ASSUME TimesAssumption ==
  /\ {Wait, Timeout, Keep, Cache, Ttl} \subseteq Nat
  /\ Wait < Timeout /\ Timeout < Keep

VARIABLES
  now,
  db,            \* the account row
  requests,      \* the requests table
  pending,       \* the request session calls join (the pending table)
  alarmAt,       \* when the alarm rings (0: not set)
  calls,         \* handlers under way
  jobs,          \* sign-ins the engine works on
  prompts,       \* requests a phone was asked about and has not answered
  numbered,      \* the next request's name
  begun, crashes,
  scenario,      \* which of Scenarios this behaviour is in
  logins,        \* history: sign-ins the engine took, per request
  settled        \* history: requests that were answered or failed

store == <<db, requests, pending, alarmAt>>
outside == <<jobs, prompts, logins, scenario>>
vars == <<now, store, calls, outside, numbered, begun, crashes, settled>>

Handlers == Slots \cup {Alarm}
NoRequest ==
  [id |-> 0, status |-> "pending", made |-> 0, due |-> 0, started |-> FALSE,
   asked |-> FALSE, phone |-> FALSE]
NoCall ==
  [op |-> "none", await |-> "none", at |-> 0, base |-> db, doc |-> db,
   req |-> NoRequest, plan |-> "none", todo |-> {}]

(* The columns of the account row that sessions depend on; 0 is null.      *)
Row == [session : 0 .. 2, sessionAt : Nat, vault : 0 .. 2, vaultAt : Nat,
        rejected : BOOLEAN, always : BOOLEAN, ttl : BOOLEAN]

ASSUME ScenariosAssumption ==
  \A s \in Scenarios : s.opening \in Row /\ s.alarm \in Nat /\ s.time \in Nat \ {0}

Free(h) == calls[h].op = "none"
Idle == [op |-> "none"]

Init ==
  /\ now = 1
  /\ scenario \in Scenarios
  /\ db = scenario.opening
  /\ requests = [r \in {} |-> r]
  /\ pending = 0
  /\ alarmAt = scenario.alarm
  /\ calls = [h \in Handlers |-> Idle]
  /\ jobs = {} /\ prompts = {}
  /\ numbered = 1
  /\ begun = 0 /\ crashes = 0
  /\ logins = [r \in {} |-> r]
  /\ settled = {}
-----------------------------------------------------------------------------
(* The row and the requests.  What the engine seals anew differs from what *)
(* was there.                                                              *)
Fresh(sealed) == IF sealed = 1 THEN 2 ELSE 1
UsableVault(d, at) == d.vault /= 0 /\ ~(d.ttl /\ d.vaultAt /= 0 /\ at >= d.vaultAt + Ttl)
Cached(d, at) == d.session /= 0 /\ at < d.sessionAt + Cache
NoSession(d) == [d EXCEPT !.session = 0, !.sessionAt = 0]
NewSession(d, at) == [d EXCEPT !.session = Fresh(@), !.sessionAt = at]
NoVault(d) == [d EXCEPT !.vault = 0, !.vaultAt = 0]
Rejected(d) == [NoVault(d) EXCEPT !.rejected = TRUE]

Pending(r, at) == r.status = "pending" /\ at < r.made + Timeout
Failed(r) == [r EXCEPT !.status = "error"]
Put(rs, r) == [id \in DOMAIN rs \cup {r.id} |-> IF id = r.id THEN r ELSE rs[id]]
Stored(rs, id, at) == id \in DOMAIN rs /\ Pending(rs[id], at)

(* save(): only the columns this handler changed since it read the row.    *)
Merged(k) == [c \in DOMAIN db |-> IF k.doc[c] /= k.base[c] THEN k.doc[c] ELSE db[c]]
Save(k) == db' = Merged(k)

(* All changes of the requests table; what has been settled is remembered. *)
SetRequests(rs) ==
  /\ requests' = rs
  /\ settled' = settled \cup {id \in DOMAIN rs : rs[id].status /= "pending"}

(* reschedule(), on the requests rs and the row d the handler has.         *)
(* Mutant of WaitsDue: requests are only looked at to be dropped.          *)
WaitsNever(rs) == {}
WaitsDue(rs) ==
  {rs[id].due : id \in {id \in DOMAIN rs :
     rs[id].due /= 0 /\ ~rs[id].started /\ rs[id].status = "pending"}}

Reschedule(rs, d) ==
  LET due == WaitsDue(rs) \cup {rs[id].made + Keep : id \in DOMAIN rs}
             \cup (IF d.ttl /\ d.vaultAt /= 0 /\ d.vault /= 0 THEN {d.vaultAt + Ttl} ELSE {})
      first == CHOOSE t \in due : \A u \in due : t <= u
  IN alarmAt' = IF due = {} THEN 0 ELSE IF first > now THEN first ELSE now + 1

Loaded(op) == [NoCall EXCEPT !.op = op, !.at = now]
Await(h, k, what) == calls' = [calls EXCEPT ![h] = [k EXCEPT !.await = what]]
Ends(h) == calls' = [calls EXCEPT ![h] = Idle]
Arrives(h, op) == Free(h) /\ op \in scenario.ops /\ begun < scenario.calls /\ begun' = begun + 1
-----------------------------------------------------------------------------
(* startSession() and appLogin(): without a cached session that works, the *)
(* call joins the pending request or makes one.                            *)
(* Mutant of Joins: a call that had to ask about its cached session makes a*)
(* request of its own.                                                     *)
JoinsAtOnce(k) == k.await = "none" /\ Stored(requests, pending, k.at)
Joins(k) == Stored(requests, pending, k.at)

(* plan(), and appLogin's only way.                                        *)
Plan(k) ==
  IF k.op = "app" THEN "app"
  ELSE IF ~UsableVault(k.doc, k.at) THEN "phone_only"
  ELSE IF k.doc.always THEN "vault_first" ELSE "phone_first"

Join(h, k) ==
  /\ Joins(k)
  /\ IF k.op = "session" THEN Save(k) ELSE UNCHANGED db
  /\ Ends(h)
  /\ UNCHANGED <<requests, pending, numbered, settled>>

Make(h, k) ==
  LET r == [NoRequest EXCEPT !.id = numbered, !.made = k.at, !.phone = k.op = "session"]
      plan == Plan(k)
  IN /\ ~Joins(k)
     /\ numbered' = numbered + 1
     /\ SetRequests(Put(requests, r))
     /\ pending' = r.id
     /\ Await(h, [k EXCEPT !.req = r, !.plan = plan],
              IF plan \in {"app", "vault_first"} THEN "login" ELSE "ask")
     /\ UNCHANGED db

JoinOrMake(h, k) == (Join(h, k) \/ Make(h, k)) /\ UNCHANGED alarmAt

StartSession(h) ==
  \E op \in {"session", "app"} :
    /\ Arrives(h, op)
    /\ op = "app" => UsableVault(db, now)
    /\ \/ /\ Cached(db, now)
          /\ Await(h, Loaded(op), "check")
          /\ UNCHANGED <<store, numbered, settled>>
       \/ /\ ~Cached(db, now)
          /\ JoinOrMake(h, Loaded(op))
    /\ UNCHANGED <<now, outside, crashes>>

(* The engine's word on the cached session: it works, it expired, or there *)
(* is no answer.                                                           *)
Checked(h) ==
  LET k == calls[h]
  IN /\ ~Free(h) /\ k.await = "check"
     /\ \/ Save(k) /\ Ends(h) /\ UNCHANGED <<requests, pending, alarmAt, numbered, settled>>
        \/ JoinOrMake(h, [k EXCEPT !.doc = NoSession(@)])
        \/ JoinOrMake(h, k)
     /\ UNCHANGED <<now, outside, begun, crashes>>

(* The end of startSession, with the request r it has in hand, unless it   *)
(* has been finished meanwhile.                                            *)
Kept(r, at) == IF Stored(requests, r.id, at) THEN Put(requests, r) ELSE requests

SessionEnds(h, k, r) ==
  /\ Save(k)
  /\ SetRequests(Kept(r, k.at))
  /\ Reschedule(Kept(r, k.at), k.doc)
  /\ Ends(h)

AppEnds(h, k, rs) ==
  /\ Save(k)
  /\ SetRequests(rs)
  /\ UNCHANGED alarmAt
  /\ Ends(h)
-----------------------------------------------------------------------------
(* startLogin(): the engine takes the sign-in; the handler hears so later, *)
(* or hears of a refusal, or nothing although it was taken.                *)
EngineTakes(h) ==
  LET id == calls[h].req.id
      n == (IF id \in DOMAIN logins THEN logins[id] ELSE 0) + 1
  IN /\ ~Free(h) /\ calls[h].await = "login"
     /\ jobs' = jobs \cup {[id |-> id, n |-> n]}
     /\ logins' = [i \in DOMAIN logins \cup {id} |-> IF i = id THEN n ELSE logins[i]]
     /\ Await(h, calls[h], "taken")
     /\ UNCHANGED <<now, store, prompts, scenario, numbered, begun, crashes, settled>>

(* askPhone(): the event reaches the device, or not.                       *)
PhoneGets(h) ==
  /\ ~Free(h) /\ calls[h].await = "ask"
  /\ prompts' = prompts \cup {calls[h].req.id}
  /\ Await(h, calls[h], "asked")
  /\ UNCHANGED <<now, store, jobs, logins, scenario, numbered, begun, crashes, settled>>

(* begin(), from the answer to its first question.                         *)
BeginLogin(h, k, ok) ==
  /\ k.op = "session"
  /\ \/ ok /\ SessionEnds(h, k, [k.req EXCEPT !.started = TRUE])
     \/ ~ok /\ k.plan = "vault_first" /\ Await(h, k, "ask") /\ UNCHANGED <<db, requests, alarmAt, settled>>
     \/ ~ok /\ k.plan = "phone_first" /\ SessionEnds(h, k, Failed(k.req))

BeginAsk(h, k, ok) ==
  /\ k.op = "session"
  /\ \/ /\ ok
        /\ SessionEnds(h, k, [k.req EXCEPT !.asked = TRUE,
                                !.due = IF k.plan = "phone_first" THEN k.at + Wait ELSE 0])
     \/ ~ok /\ k.plan = "phone_first" /\ Await(h, k, "login") /\ UNCHANGED <<db, requests, alarmAt, settled>>
     \/ ~ok /\ k.plan /= "phone_first" /\ SessionEnds(h, k, Failed(k.req))

AppLogin(h, k, ok) ==
  /\ k.op = "app"
  /\ \/ ok /\ AppEnds(h, k, Kept([k.req EXCEPT !.started = TRUE], k.at))
     \/ ~ok /\ AppEnds(h, k, Put(requests, Failed(k.req)))
-----------------------------------------------------------------------------
(* alarm(): the requests whose wait is over, as read when it rang.         *)
(* Mutant of DueNow: a request that waits for no phone is due as well.     *)
DueOrNot(rs, at) ==
  {rs[id] : id \in {id \in DOMAIN rs : /\ at >= rs[id].due
                                       /\ ~rs[id].started /\ Pending(rs[id], at)}}
DueNow(rs, at) ==
  {rs[id] : id \in {id \in DOMAIN rs : /\ rs[id].due /= 0 /\ at >= rs[id].due
                                       /\ ~rs[id].started /\ Pending(rs[id], at)}}

AlarmEnds(k, rs) ==
  LET over == k.doc.vault /= 0 /\ ~UsableVault(k.doc, k.at)
      k1 == IF over THEN [k EXCEPT !.doc = NoVault(@)] ELSE k
  IN Save(k1) /\ SetRequests(rs) /\ Reschedule(rs, k1.doc) /\ Ends(Alarm)

(* Old requests go; without saved credentials the due ones wait no more.   *)
AlarmRings ==
  LET k == Loaded("alarm")
      young == [id \in {id \in DOMAIN requests : now < requests[id].made + Keep} |-> requests[id]]
      due == DueNow(young, now)
      quiet == [id \in DOMAIN young |->
                  IF young[id] \in due THEN [young[id] EXCEPT !.due = 0] ELSE young[id]]
  IN /\ alarmAt /= 0 /\ now >= alarmAt
     /\ Free(Alarm)
     /\ \/ /\ due = {} \/ ~UsableVault(db, now)
           /\ AlarmEnds(k, quiet)
        \/ /\ UsableVault(db, now)
           /\ \E r \in due : Await(Alarm, [k EXCEPT !.req = r, !.todo = due \ {r}], "login")
           /\ alarmAt' = 0
           /\ SetRequests(young)
           /\ UNCHANGED db
     /\ UNCHANGED <<now, pending, outside, numbered, begun, crashes>>

AlarmLogin(k, ok) ==
  LET r == IF ok THEN [k.req EXCEPT !.started = TRUE] ELSE [k.req EXCEPT !.due = 0]
      rs == Put(requests, r)
  IN /\ k.op = "alarm"
     /\ \/ k.todo = {} /\ AlarmEnds(k, rs)
        \/ /\ \E next \in k.todo :
                Await(Alarm, [k EXCEPT !.req = next, !.todo = @ \ {next}], "login")
           /\ SetRequests(rs)
           /\ UNCHANGED <<db, alarmAt>>
-----------------------------------------------------------------------------
(* loginDone(): the engine's outcome of a sign-in.                         *)
(* Mutant of DoneEnds: the request is written back even if it was dropped. *)
DoneWrites(h, k) ==
  /\ Save(k)
  /\ SetRequests(Put(requests, k.req))
  /\ Ends(h)
  /\ UNCHANGED alarmAt
DoneEnds(h, k) ==
  /\ Save(k)
  /\ SetRequests(IF k.req.id = 0 THEN requests ELSE Put(requests, k.req))
  /\ Ends(h)
  /\ UNCHANGED alarmAt

DoneAsk(h, k, ok) ==
  /\ k.op = "done"
  /\ DoneEnds(h, [k EXCEPT !.req = IF ok THEN [@ EXCEPT !.asked = TRUE] ELSE Failed(@)])

LoginFails(h, k) ==
  LET fallback == k.req.id /= 0 /\ Pending(k.req, k.at) /\ ~k.req.asked
  IN \/ /\ fallback /\ k.req.phone
        /\ Await(h, k, "ask")
        /\ UNCHANGED <<db, requests, alarmAt, settled>>
     \/ fallback /\ ~k.req.phone /\ DoneEnds(h, [k EXCEPT !.req = Failed(@)])
     \/ ~fallback /\ DoneEnds(h, k)

LoginDone(h) ==
  \E job \in jobs :
    LET r == IF job.id \in DOMAIN requests THEN requests[job.id] ELSE NoRequest
        k == [Loaded("done") EXCEPT !.req = r]
    IN /\ Free(h)
       /\ jobs' = jobs \ {job}
       /\ \/ DoneEnds(h, [k EXCEPT !.doc = NewSession(@, now),
                            !.req = IF Pending(r, now) THEN [r EXCEPT !.status = "success"] ELSE r])
          \/ LoginFails(h, [k EXCEPT !.doc = Rejected(@)])
          \/ LoginFails(h, [k EXCEPT !.doc = NoVault(@)])
          \/ LoginFails(h, k)
          \/ db.vault /= 0 /\ LoginFails(h, [k EXCEPT !.doc.vault = Fresh(@)])  \* without Gmail
       /\ UNCHANGED <<now, pending, prompts, logins, scenario, numbered, begun, crashes>>

(* The awaits on the engine and on the device end.                         *)
Told(h, ok) ==
  LET k == calls[h]
  IN /\ ~Free(h)
     /\ \/ /\ k.await \in (IF ok THEN {"taken"} ELSE {"taken", "login"})
           /\ BeginLogin(h, k, ok) \/ AppLogin(h, k, ok) \/ AlarmLogin(k, ok)
        \/ /\ k.await \in (IF ok THEN {"asked"} ELSE {"asked", "ask"})
           /\ BeginAsk(h, k, ok) \/ DoneAsk(h, k, ok)
     /\ UNCHANGED <<now, pending, outside, numbered, begun, crashes>>
-----------------------------------------------------------------------------
(* answer(): the phone's answer to a prompt, an error or cookies that the  *)
(* engine has to check.                                                    *)
AnswerError ==
  \E id \in prompts \cap DOMAIN requests :
    /\ prompts' = prompts \ {id}
    /\ IF Pending(requests[id], now) THEN SetRequests(Put(requests, Failed(requests[id])))
       ELSE UNCHANGED <<requests, settled>>
    /\ UNCHANGED <<now, db, pending, alarmAt, calls, jobs, logins, scenario, numbered, begun, crashes>>

Answer(h) ==
  \E id \in prompts \cap DOMAIN requests :
    /\ Free(h)
    /\ prompts' = prompts \ {id}
    /\ Await(h, [Loaded("answer") EXCEPT !.req = requests[id]], "verify")
    /\ UNCHANGED <<now, store, jobs, logins, scenario, numbered, begun, crashes, settled>>

(* The cookies work: the request has its answer and the session is cached, *)
(* at once or after the credentials that came along are sealed.  They do   *)
(* not: the request fails.  VTOP is out of reach: the phone tries again.   *)
Verified(h) ==
  LET k == calls[h]
      k1 == [k EXCEPT !.doc = NewSession(@, k.at)]
      settles(status) ==
        IF Pending(k.req, k.at) THEN SetRequests(Put(requests, [k.req EXCEPT !.status = status]))
        ELSE UNCHANGED <<requests, settled>>
  IN /\ ~Free(h) /\ k.await = "verify"
     /\ \/ /\ settles("success")
           /\ UNCHANGED prompts
           /\ \/ Save(k1) /\ Ends(h)
              \/ Await(h, k1, "seal") /\ UNCHANGED db
        \/ settles("error") /\ Ends(h) /\ UNCHANGED <<db, prompts>>
        \/ /\ prompts' = prompts \cup {k.req.id}
           /\ Ends(h)
           /\ UNCHANGED <<db, requests, settled>>
     /\ UNCHANGED <<now, pending, alarmAt, jobs, logins, scenario, numbered, begun, crashes>>

(* keepCredentials(), in an answer or in link().                           *)
Sealed(h) ==
  LET k == calls[h]
      kept == [k EXCEPT !.doc.vault = Fresh(@), !.doc.vaultAt = k.at, !.doc.rejected = FALSE]
  IN /\ ~Free(h) /\ k.await = "seal"
     /\ Save(kept) \/ Save(k)
     /\ Ends(h)
     /\ UNCHANGED <<now, requests, pending, alarmAt, outside, numbered, begun, crashes, settled>>

(* A linked phone links again, with a session and credentials.             *)
Link(h) ==
  /\ Arrives(h, "link")
  /\ Await(h, [Loaded("link") EXCEPT !.doc = NewSession(@, now)], "seal")
  /\ UNCHANGED <<now, store, outside, numbered, crashes, settled>>

(* Handlers that never wait: the phone rejects or forgets the credentials, *)
(* somebody expires the session, the student changes the settings.         *)
Edit ==
  /\ \/ "reject" \in scenario.ops /\ db' = Rejected(db)
     \/ "forget" \in scenario.ops /\ db' = NoVault(db)
     \/ "expire" \in scenario.ops /\ db' = NoSession(db)
     \/ "settings" \in scenario.ops /\ \E always, ttl \in BOOLEAN :
          db' = [db EXCEPT !.always = always, !.ttl = ttl]
  /\ begun < scenario.calls /\ begun' = begun + 1
  /\ UNCHANGED <<now, requests, pending, alarmAt, calls, outside, numbered, crashes, settled>>
-----------------------------------------------------------------------------
(* A crash; an alarm that was running rings again.                         *)
Crash ==
  /\ crashes < scenario.crashes
  /\ crashes' = crashes + 1
  /\ calls' = [h \in Handlers |-> Idle]
  /\ alarmAt' = IF Free(Alarm) THEN alarmAt ELSE now
  /\ UNCHANGED <<now, db, requests, pending, outside, numbered, begun, settled>>

Tick ==
  /\ now < scenario.time
  /\ now' = now + 1
  /\ UNCHANGED <<store, calls, outside, numbered, begun, crashes, settled>>

(* A handler under way goes on: whatever it waits for answers or times out.*)
Continue(h) ==
  Checked(h) \/ EngineTakes(h) \/ PhoneGets(h) \/ (\E ok \in BOOLEAN : Told(h, ok))
  \/ Verified(h) \/ Sealed(h)

Next ==
  \/ \E h \in Slots : StartSession(h) \/ LoginDone(h) \/ Answer(h) \/ Link(h)
  \/ \E h \in Handlers : Continue(h)
  \/ AnswerError \/ Edit \/ AlarmRings \/ Crash \/ Tick

Spec == Init /\ [][Next]_vars

(* Time passes, the alarm rings when it is due, and no await lasts for     *)
(* ever.  Neither the phone nor the engine's sign-in need ever end.        *)
FairSpec ==
  /\ Spec
  /\ WF_vars(Tick) /\ WF_vars(AlarmRings)
  /\ \A h \in Handlers : WF_vars(Continue(h))
-----------------------------------------------------------------------------
(* The row, the requests and what is under way keep their shapes.          *)
TypeOK ==
  /\ db \in Row
  /\ \A id \in DOMAIN requests :
       /\ requests[id].id = id /\ id < numbered
       /\ requests[id].made \in 1 .. now /\ requests[id].due \in 0 .. scenario.time + Wait
       /\ requests[id].status \in {"pending", "success", "error"}
  /\ pending \in 0 .. numbered - 1
  /\ alarmAt \in Nat
  /\ \A job \in jobs : job.id < numbered
  /\ \A h \in Handlers : ~Free(h) =>
       /\ calls[h].doc \in Row /\ calls[h].base \in Row
       /\ calls[h].await \in {"check", "login", "taken", "ask", "asked", "verify", "seal"}

(* A session call that comes while a request is pending joins it, however  *)
(* long it waited for the engine before it looked (account.ts:823-824: "a  *)
(* session call that comes in meanwhile joins this request instead of      *)
(* starting another").                                                     *)
OneStarted == [][pending' /= pending => ~Stored(requests, pending, now)]_vars

(* The engine signs in at most once for a request, which mails the student *)
(* one OTP: the wait that runs out, the phone that fails and the handler   *)
(* that made the request do not both start it.  A crash in the alarm       *)
(* handler costs one more (account.ts:1467-1488).                          *)
OneLogin == \A id \in DOMAIN logins : logins[id] <= 1 + crashes

(* A pending request is never forgotten: a handler has it in hand, the     *)
(* engine signs in for it, the alarm is set for when its wait is over, or, *)
(* when the server is not to take over, a phone was asked (account.ts:     *)
(* 862-881, 1007-1016, 1449-1465).  Not claimed after a crash, nor of a    *)
(* request that had its end already.                                       *)
InHand(id) ==
  \E h \in Handlers : ~Free(h) /\ \E r \in {calls[h].req} \cup calls[h].todo : r.id = id
Attended(id) ==
  \/ InHand(id)
  \/ \E job \in jobs : job.id = id
  \/ LET r == requests[id]
     IN IF r.due /= 0 /\ ~r.started
        THEN alarmAt /= 0 /\ (alarmAt <= r.due \/ alarmAt <= now + 1)
        ELSE id \in prompts
NobodyForgets ==
  crashes = 0 => \A id \in DOMAIN requests \ settled : Pending(requests[id], now) => Attended(id)

(* Why OneStarted holds.  A handler decides by the time at which it was    *)
(* called, which may be past; so what it takes to be over is over.         *)
IsRequest(r) ==
  /\ DOMAIN r = {"id", "status", "made", "due", "started", "asked", "phone"}
  /\ r.made \in Nat
IsCall(k) ==
  /\ DOMAIN k = {"op", "await", "at", "base", "doc", "req", "plan", "todo"}
  /\ k.at \in Nat /\ k.at <= now
  /\ IsRequest(k.req) /\ \A r \in k.todo : IsRequest(r)
Requests(rs) == \A id \in DOMAIN rs : IsRequest(rs[id])
Underway ==
  /\ DOMAIN calls = Handlers
  /\ \A h \in Handlers : Free(h) \/ IsCall(calls[h])
CalledBefore == now \in Nat /\ Requests(requests) /\ Underway
-----------------------------------------------------------------------------
(* What comments and docs say and the code does not keep.                  *)

(* account.ts:888-890: "the first to answer at `/v1/session/answer` wins". *)
FirstAnswerWins ==
  [][\A id \in DOMAIN requests \cap DOMAIN requests' :
       requests[id].status = "success" => requests'[id].status = "success"]_vars
=============================================================================

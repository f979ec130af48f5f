------------------------ MODULE AccountSessionProof -------------------------
(***************************************************************************)
(* For any number of handlers, any times and whatever the calls are:       *)
(*   OneRequestAtATime   no request is started beside one that is pending; *)
(*   OneLoginHolds       the engine signs in for a request at most once,   *)
(*                       and once more for each crash;                     *)
(*   AccountTyped        the row, the requests and the alarm stay in shape;*)
(*   NobodyForgetsHolds  while nothing crashes, a pending request is always*)
(*                       somebody's.                                       *)
(* Each rests on the invariants of those before it.                        *)
(***************************************************************************)
EXTENDS AccountSession, TLAPS, WellFoundedInduction

LEMMA PutKeeps ==
  ASSUME NEW rs, Requests(rs), NEW r, IsRequest(r)
  PROVE  Requests(Put(rs, r))
BY DEF Requests, Put

LEMMA AwaitKeeps ==
  ASSUME Underway, NEW h \in Handlers, NEW k, IsCall(k), NEW what, Await(h, k, what),
         now' = now
  PROVE  Underway'
<1> DEFINE k1 == [k EXCEPT !.await = what]
<1>1. /\ DOMAIN k1 = DOMAIN k
      /\ k1.at = k.at /\ k1.req = k.req /\ k1.todo = k.todo
  BY DEF IsCall
<1>2. IsCall(k1)'
  BY <1>1 DEF IsCall, IsRequest
<1> HIDE DEF k1
<1>3. calls' = [calls EXCEPT ![h] = k1]
  BY DEF Await, k1
<1> QED BY <1>2, <1>3 DEF Underway, Free, IsCall

LEMMA EndsKeeps ==
  ASSUME Underway, NEW h \in Handlers, Ends(h), now' = now
  PROVE  Underway'
BY DEF Underway, Ends, Free, Idle, IsCall

LEMMA LoadedCall ==
  ASSUME now \in Nat, NEW op
  PROVE  IsCall(Loaded(op)) /\ Loaded(op).at = now
BY DEF IsCall, IsRequest, Loaded, NoCall, NoRequest

(* Changes of a call that leave its time alone.                            *)
LEMMA DocKeeps ==
  ASSUME NEW k, IsCall(k), NEW d
  PROVE  IsCall([k EXCEPT !.doc = d]) /\ [k EXCEPT !.doc = d].at = k.at
BY DEF IsCall, IsRequest

LEMMA ReqKeeps ==
  ASSUME NEW k, IsCall(k), NEW r, IsRequest(r)
  PROVE  IsCall([k EXCEPT !.req = r]) /\ [k EXCEPT !.req = r].at = k.at
BY DEF IsCall, IsRequest

LEMMA FailedKeeps ==
  ASSUME NEW r, IsRequest(r)
  PROVE  IsRequest(Failed(r))
BY DEF IsRequest, Failed

LEMMA KeptKeeps ==
  ASSUME Requests(requests), NEW r, IsRequest(r), NEW at
  PROVE  Requests(Kept(r, at))
BY PutKeeps DEF Kept
-----------------------------------------------------------------------------
LEMMA JoinOrMakeKeeps ==
  ASSUME CalledBefore, NEW h \in Handlers, NEW k, IsCall(k), JoinOrMake(h, k), now' = now
  PROVE  CalledBefore'
<1>1. CASE Join(h, k)
  BY <1>1, EndsKeeps DEF Join, CalledBefore, Requests, IsRequest
<1>2. CASE Make(h, k)
  <2> DEFINE r == [NoRequest EXCEPT !.id = numbered, !.made = k.at, !.phone = k.op = "session"]
             k1 == [k EXCEPT !.req = r, !.plan = Plan(k)]
  <2>1. IsRequest(r)
    BY DEF IsRequest, NoRequest, IsCall
  <2>2. IsCall(k1)
    BY <2>1 DEF IsCall, IsRequest
  <2>3. requests' = Put(requests, r)
    BY <1>2 DEF Make, SetRequests
  <2>4. Await(h, k1, IF Plan(k) \in {"app", "vault_first"} THEN "login" ELSE "ask")
    BY <1>2 DEF Make
  <2> HIDE DEF r, k1
  <2>5. Underway'
    BY <2>2, <2>4, AwaitKeeps DEF CalledBefore
  <2>6. Requests(requests)'
    BY <2>1, <2>3, PutKeeps DEF CalledBefore, Requests, IsRequest
  <2> QED BY <2>5, <2>6 DEF CalledBefore
<1> QED BY <1>1, <1>2 DEF JoinOrMake

LEMMA StartSessionKeeps ==
  ASSUME CalledBefore, NEW h \in Handlers, StartSession(h)
  PROVE  CalledBefore'
<1>1. PICK op \in {"session", "app"} :
        \/ /\ Await(h, Loaded(op), "check")
           /\ UNCHANGED <<store, numbered, settled>>
        \/ JoinOrMake(h, Loaded(op))
  BY DEF StartSession
<1>2. now' = now /\ IsCall(Loaded(op))
  BY LoadedCall DEF StartSession, CalledBefore
<1>3. CASE Await(h, Loaded(op), "check") /\ UNCHANGED store
  BY <1>2, <1>3, AwaitKeeps DEF CalledBefore, store, Requests, IsRequest
<1>4. CASE JoinOrMake(h, Loaded(op))
  BY <1>2, <1>4, JoinOrMakeKeeps
<1> QED BY <1>1, <1>3, <1>4

LEMMA CheckedKeeps ==
  ASSUME CalledBefore, NEW h \in Handlers, Checked(h)
  PROVE  CalledBefore'
<1> DEFINE k == calls[h]
           k1 == [k EXCEPT !.doc = NoSession(@)]
<1>1. now' = now /\ IsCall(k)
  BY DEF Checked, CalledBefore, Underway
<1>2. IsCall(k1)
  BY <1>1, DocKeeps
<1>3. \/ Ends(h) /\ UNCHANGED requests
      \/ JoinOrMake(h, k1)
      \/ JoinOrMake(h, k)
  BY DEF Checked
<1> HIDE DEF k, k1
<1>4. CASE Ends(h) /\ UNCHANGED requests
  BY <1>1, <1>4, EndsKeeps DEF CalledBefore, Requests, IsRequest
<1> QED BY <1>1, <1>2, <1>3, <1>4, JoinOrMakeKeeps

LEMMA TakenKeeps ==
  ASSUME CalledBefore, NEW h \in Handlers, EngineTakes(h) \/ PhoneGets(h)
  PROVE  CalledBefore'
<1>1. now' = now /\ requests' = requests /\ IsCall(calls[h])
  BY DEF EngineTakes, PhoneGets, store, CalledBefore, Underway
<1>2. \E what : Await(h, calls[h], what)
  BY DEF EngineTakes, PhoneGets
<1> QED BY <1>1, <1>2, AwaitKeeps DEF CalledBefore, Requests, IsRequest

(* A handler that ends, or awaits something else, with requests in order.  *)
LEMMA EndsWith ==
  ASSUME CalledBefore, NEW h \in Handlers, Ends(h), now' = now,
         NEW rs, Requests(rs), requests' = rs
  PROVE  CalledBefore'
BY EndsKeeps DEF CalledBefore, Requests, IsRequest

LEMMA AwaitsWith ==
  ASSUME CalledBefore, NEW h \in Handlers, NEW k, IsCall(k), NEW what, Await(h, k, what),
         now' = now, NEW rs, Requests(rs), requests' = rs
  PROVE  CalledBefore'
BY AwaitKeeps DEF CalledBefore, Requests, IsRequest

LEMMA SessionEndsKeeps ==
  ASSUME CalledBefore, NEW h \in Handlers, NEW k, NEW r, IsRequest(r), SessionEnds(h, k, r),
         now' = now
  PROVE  CalledBefore'
BY KeptKeeps, EndsWith DEF SessionEnds, SetRequests, CalledBefore

LEMMA BeginKeeps ==
  ASSUME CalledBefore, NEW h \in Handlers, NEW ok, now' = now, IsCall(calls[h]),
         BeginLogin(h, calls[h], ok) \/ BeginAsk(h, calls[h], ok)
  PROVE  CalledBefore'
<1> DEFINE k == calls[h]
           started == [k.req EXCEPT !.started = TRUE]
           due(t) == [k.req EXCEPT !.asked = TRUE, !.due = t]
<1>1. IsRequest(started) /\ IsRequest(Failed(k.req)) /\ \A t : IsRequest(due(t))
  BY FailedKeeps DEF IsCall, IsRequest
<1>2. \/ SessionEnds(h, k, started)
      \/ SessionEnds(h, k, Failed(k.req))
      \/ \E t : SessionEnds(h, k, due(t))
      \/ (\E what : Await(h, k, what)) /\ requests' = requests
  BY DEF BeginLogin, BeginAsk
<1>3. IsCall(k)
  OBVIOUS
<1> HIDE DEF k, started, due
<1>4. CASE (\E what : Await(h, k, what)) /\ requests' = requests
  BY <1>3, <1>4, AwaitsWith DEF CalledBefore
<1> QED BY <1>1, <1>2, <1>4, SessionEndsKeeps

LEMMA AppLoginKeeps ==
  ASSUME CalledBefore, NEW h \in Handlers, NEW ok, now' = now, IsCall(calls[h]),
         AppLogin(h, calls[h], ok)
  PROVE  CalledBefore'
<1> DEFINE k == calls[h]
           started == [k.req EXCEPT !.started = TRUE]
<1>1. IsRequest(started) /\ IsRequest(Failed(k.req))
  BY FailedKeeps DEF IsCall, IsRequest
<1>2. \/ AppEnds(h, k, Kept(started, k.at))
      \/ AppEnds(h, k, Put(requests, Failed(k.req)))
  BY DEF AppLogin
<1> HIDE DEF k, started
<1>3. Requests(Kept(started, k.at)) /\ Requests(Put(requests, Failed(k.req)))
  BY <1>1, KeptKeeps, PutKeeps DEF CalledBefore
<1> QED BY <1>2, <1>3, EndsWith DEF AppEnds, SetRequests

LEMMA AlarmEndsKeeps ==
  ASSUME CalledBefore, NEW k, NEW rs, Requests(rs), AlarmEnds(k, rs), now' = now
  PROVE  CalledBefore'
BY EndsWith DEF AlarmEnds, SetRequests, Handlers

LEMMA AlarmLoginKeeps ==
  ASSUME CalledBefore, NEW k, IsCall(k), NEW ok, now' = now, AlarmLogin(k, ok)
  PROVE  CalledBefore'
<1> DEFINE r == IF ok THEN [k.req EXCEPT !.started = TRUE] ELSE [k.req EXCEPT !.due = 0]
           rs == Put(requests, r)
<1>1. IsRequest(r)
  BY DEF IsCall, IsRequest
<1>2. Requests(rs)
  BY <1>1, PutKeeps DEF CalledBefore
<1>3. \/ AlarmEnds(k, rs)
      \/ /\ \E next \in k.todo :
              Await(Alarm, [k EXCEPT !.req = next, !.todo = @ \ {next}], "login")
         /\ requests' = rs
  BY DEF AlarmLogin, SetRequests
<1> HIDE DEF rs
<1>4. CASE AlarmEnds(k, rs)
  BY <1>2, <1>4, AlarmEndsKeeps
<1>5. ASSUME NEW next \in k.todo, requests' = rs,
             Await(Alarm, [k EXCEPT !.req = next, !.todo = @ \ {next}], "login")
      PROVE  CalledBefore'
  <2>1. IsCall([k EXCEPT !.req = next, !.todo = @ \ {next}])
    BY <1>5 DEF IsCall, IsRequest
  <2> QED BY <1>2, <1>5, <2>1, AwaitsWith DEF Handlers
<1> QED BY <1>3, <1>4, <1>5

LEMMA AlarmRingsKeeps ==
  ASSUME CalledBefore, AlarmRings
  PROVE  CalledBefore'
<1> DEFINE k == Loaded("alarm")
           young == [id \in {id \in DOMAIN requests : now < requests[id].made + Keep} |-> requests[id]]
           due == DueNow(young, now)
           quiet == [id \in DOMAIN young |->
                       IF young[id] \in due THEN [young[id] EXCEPT !.due = 0] ELSE young[id]]
<1>1. Requests(young)
  BY DEF CalledBefore, Requests
<1>2. \A r \in due : IsRequest(r)
  BY <1>1 DEF DueNow, Requests
<1>3. Requests(quiet)
  BY <1>1 DEF Requests, IsRequest
<1>4. now' = now /\ IsCall(k)
  BY LoadedCall DEF AlarmRings, CalledBefore
<1>5. \/ AlarmEnds(k, quiet)
      \/ /\ \E r \in due : Await(Alarm, [k EXCEPT !.req = r, !.todo = due \ {r}], "login")
         /\ requests' = young
  BY DEF AlarmRings, SetRequests
<1> HIDE DEF k, young, due, quiet
<1>6. ASSUME NEW r \in due, requests' = young,
             Await(Alarm, [k EXCEPT !.req = r, !.todo = due \ {r}], "login")
      PROVE  CalledBefore'
  <2>1. IsCall([k EXCEPT !.req = r, !.todo = due \ {r}])
    BY <1>2, <1>4 DEF IsCall, IsRequest
  <2> QED BY <1>1, <1>4, <1>6, <2>1, AwaitsWith DEF Handlers
<1> QED BY <1>3, <1>4, <1>5, <1>6, AlarmEndsKeeps

LEMMA DoneEndsKeeps ==
  ASSUME CalledBefore, NEW h \in Handlers, NEW k, IsRequest(k.req), DoneEnds(h, k), now' = now
  PROVE  CalledBefore'
<1>1. Requests(IF k.req.id = 0 THEN requests ELSE Put(requests, k.req))
  BY PutKeeps DEF CalledBefore
<1> QED BY <1>1, EndsWith DEF DoneEnds, SetRequests

LEMMA DoneAskKeeps ==
  ASSUME CalledBefore, NEW h \in Handlers, NEW k, IsCall(k), NEW ok, DoneAsk(h, k, ok), now' = now
  PROVE  CalledBefore'
<1> DEFINE k1 == [k EXCEPT !.req = IF ok THEN [@ EXCEPT !.asked = TRUE] ELSE Failed(@)]
<1>1. IsRequest(k1.req)
  BY FailedKeeps DEF IsCall, IsRequest
<1>2. DoneEnds(h, k1)
  BY DEF DoneAsk
<1> HIDE DEF k1
<1> QED BY <1>1, <1>2, DoneEndsKeeps

LEMMA LoginFailsKeeps ==
  ASSUME CalledBefore, NEW h \in Handlers, NEW k, IsCall(k), LoginFails(h, k), now' = now
  PROVE  CalledBefore'
<1> DEFINE k1 == [k EXCEPT !.req = Failed(@)]
<1>1. IsRequest(k1.req) /\ IsRequest(k.req)
  BY FailedKeeps DEF IsCall, IsRequest
<1>2. \/ Await(h, k, "ask") /\ requests' = requests
      \/ DoneEnds(h, k1)
      \/ DoneEnds(h, k)
  BY DEF LoginFails
<1> HIDE DEF k1
<1> QED BY <1>1, <1>2, DoneEndsKeeps, AwaitsWith DEF CalledBefore

LEMMA LoginDoneKeeps ==
  ASSUME CalledBefore, NEW h \in Handlers, LoginDone(h)
  PROVE  CalledBefore'
<1>1. PICK job \in jobs :
        LET r == IF job.id \in DOMAIN requests THEN requests[job.id] ELSE NoRequest
            k == [Loaded("done") EXCEPT !.req = r]
        IN \/ DoneEnds(h, [k EXCEPT !.doc = NewSession(@, now),
                             !.req = IF Pending(r, now) THEN [r EXCEPT !.status = "success"] ELSE r])
           \/ LoginFails(h, [k EXCEPT !.doc = Rejected(@)])
           \/ LoginFails(h, [k EXCEPT !.doc = NoVault(@)])
           \/ LoginFails(h, k)
           \/ LoginFails(h, [k EXCEPT !.doc.vault = Fresh(@)])
  BY DEF LoginDone
<1> DEFINE r == IF job.id \in DOMAIN requests THEN requests[job.id] ELSE NoRequest
           k == [Loaded("done") EXCEPT !.req = r]
           done == [k EXCEPT !.doc = NewSession(@, now),
                      !.req = IF Pending(r, now) THEN [r EXCEPT !.status = "success"] ELSE r]
<1>2. now' = now
  BY DEF LoginDone
<1>3. IsRequest(r)
  BY DEF CalledBefore, Requests, IsRequest, NoRequest
<1> HIDE DEF r
<1>4. IsCall(k)
  BY <1>3, LoadedCall, ReqKeeps DEF CalledBefore
<1>5. IsRequest(done.req)
  BY <1>3, <1>4 DEF IsCall, IsRequest
<1>6. /\ IsCall([k EXCEPT !.doc = Rejected(@)]) /\ IsCall([k EXCEPT !.doc = NoVault(@)])
      /\ IsCall([k EXCEPT !.doc.vault = Fresh(@)])
  BY <1>4, DocKeeps
<1>7. \/ DoneEnds(h, done)
      \/ LoginFails(h, [k EXCEPT !.doc = Rejected(@)])
      \/ LoginFails(h, [k EXCEPT !.doc = NoVault(@)])
      \/ LoginFails(h, k)
      \/ LoginFails(h, [k EXCEPT !.doc.vault = Fresh(@)])
  BY <1>1 DEF r
<1> HIDE DEF k, done
<1> QED BY <1>2, <1>4, <1>5, <1>6, <1>7, DoneEndsKeeps, LoginFailsKeeps

LEMMA ToldKeeps ==
  ASSUME CalledBefore, NEW h \in Handlers, NEW ok, Told(h, ok)
  PROVE  CalledBefore'
<1>1. now' = now /\ IsCall(calls[h])
  BY DEF Told, CalledBefore, Underway
<1>2. \/ BeginLogin(h, calls[h], ok) \/ AppLogin(h, calls[h], ok) \/ AlarmLogin(calls[h], ok)
      \/ BeginAsk(h, calls[h], ok) \/ DoneAsk(h, calls[h], ok)
  BY DEF Told
<1> QED BY <1>1, <1>2, BeginKeeps, AppLoginKeeps, AlarmLoginKeeps, DoneAskKeeps

LEMMA AnswerErrorKeeps ==
  ASSUME CalledBefore, AnswerError
  PROVE  CalledBefore'
<1>1. now' = now /\ calls' = calls
  BY DEF AnswerError
<1>2. PICK id \in DOMAIN requests :
        requests' = requests \/ requests' = Put(requests, Failed(requests[id]))
  BY DEF AnswerError, SetRequests
<1>3. Requests(Put(requests, Failed(requests[id])))
  BY FailedKeeps, PutKeeps DEF CalledBefore, Requests
<1>4. Requests(requests)'
  BY <1>2, <1>3 DEF CalledBefore, Requests, IsRequest
<1> QED BY <1>1, <1>4 DEF CalledBefore, Underway, Free, IsCall, IsRequest

LEMMA AnswerKeeps ==
  ASSUME CalledBefore, NEW h \in Handlers, Answer(h)
  PROVE  CalledBefore'
<1>1. PICK id \in DOMAIN requests :
        Await(h, [Loaded("answer") EXCEPT !.req = requests[id]], "verify")
  BY DEF Answer
<1>2. now' = now /\ requests' = requests /\ IsRequest(requests[id])
  BY DEF Answer, store, CalledBefore, Requests
<1>3. IsCall([Loaded("answer") EXCEPT !.req = requests[id]])
  BY <1>2, LoadedCall, ReqKeeps DEF CalledBefore
<1> QED BY <1>1, <1>2, <1>3, AwaitsWith DEF CalledBefore

LEMMA VerifiedKeeps ==
  ASSUME CalledBefore, NEW h \in Handlers, Verified(h)
  PROVE  CalledBefore'
<1> DEFINE k == calls[h]
           k1 == [k EXCEPT !.doc = NewSession(@, k.at)]
           settled1(status) == [k.req EXCEPT !.status = status]
<1>1. now' = now /\ IsCall(k)
  BY DEF Verified, CalledBefore, Underway
<1>2. IsCall(k1)
  BY <1>1, DocKeeps
<1>3. \A status : Requests(Put(requests, settled1(status)))
  <2>1. \A status : IsRequest(settled1(status))
    BY <1>1 DEF IsCall, IsRequest
  <2> QED BY <2>1, PutKeeps DEF CalledBefore
<1>4. \/ requests' = requests
      \/ \E status : requests' = Put(requests, settled1(status))
  BY DEF Verified, SetRequests
<1>5. Requests(requests)'
  BY <1>3, <1>4 DEF CalledBefore, Requests, IsRequest
<1>6. Ends(h) \/ Await(h, k1, "seal")
  BY DEF Verified
<1> HIDE DEF k1, settled1
<1>7. Underway'
  BY <1>1, <1>2, <1>6, EndsKeeps, AwaitKeeps DEF CalledBefore
<1> QED BY <1>1, <1>5, <1>7 DEF CalledBefore

LEMMA SealedKeeps ==
  ASSUME CalledBefore, NEW h \in Handlers, Sealed(h)
  PROVE  CalledBefore'
BY EndsWith DEF Sealed, CalledBefore

LEMMA LinkKeeps ==
  ASSUME CalledBefore, NEW h \in Handlers, Link(h)
  PROVE  CalledBefore'
<1> DEFINE k == [Loaded("link") EXCEPT !.doc = NewSession(@, now)]
<1>1. IsCall(k)
  BY LoadedCall, DocKeeps DEF CalledBefore
<1>2. now' = now /\ requests' = requests /\ Await(h, k, "seal")
  BY DEF Link, store
<1> HIDE DEF k
<1> QED BY <1>1, <1>2, AwaitsWith DEF CalledBefore

(* What touches neither a request nor a call, or ends them all.            *)
LEMMA OutsideKeeps ==
  ASSUME CalledBefore, Edit \/ Crash \/ Tick \/ UNCHANGED vars
  PROVE  CalledBefore'
<1>1. CASE Edit \/ UNCHANGED vars
  BY <1>1 DEF Edit, vars, store, CalledBefore, Requests, Underway, Free, IsCall, IsRequest
<1>2. CASE Crash
  BY <1>2 DEF Crash, CalledBefore, Requests, Underway, Free, Idle, IsRequest
<1>3. CASE Tick
  BY <1>3 DEF Tick, store, CalledBefore, Requests, Underway, Free, IsCall, IsRequest
<1> QED BY <1>1, <1>2, <1>3
-----------------------------------------------------------------------------
LEMMA InitCalledBefore == Init => CalledBefore
BY DEF Init, CalledBefore, Requests, Underway, Free, Idle

LEMMA NextKeeps ==
  ASSUME CalledBefore, [Next]_vars
  PROVE  CalledBefore'
<1>1. ASSUME NEW h \in Slots, StartSession(h) \/ LoginDone(h) \/ Answer(h) \/ Link(h)
      PROVE  CalledBefore'
  BY <1>1, StartSessionKeeps, LoginDoneKeeps, AnswerKeeps, LinkKeeps DEF Handlers
<1>2. ASSUME NEW h \in Handlers, Continue(h)
      PROVE  CalledBefore'
  BY <1>2, CheckedKeeps, TakenKeeps, ToldKeeps, VerifiedKeeps, SealedKeeps DEF Continue
<1> QED BY <1>1, <1>2, AnswerErrorKeeps, AlarmRingsKeeps, OutsideKeeps DEF Next

(* Only a handler that joins nothing changes what is pending: nothing was  *)
(* when it was called, so nothing is now.                                  *)
LEMMA MakesAlone ==
  ASSUME CalledBefore, NEW k, IsCall(k), NEW h, JoinOrMake(h, k), pending' /= pending
  PROVE  ~Stored(requests, pending, now)
<1>1. ~Stored(requests, pending, k.at)
  BY DEF JoinOrMake, Join, Make, Joins
<1> QED BY <1>1, TimesAssumption
        DEF Stored, Pending, CalledBefore, Requests, IsRequest, IsCall

LEMMA OneStartedStep ==
  ASSUME CalledBefore, [Next]_vars, pending' /= pending
  PROVE  ~Stored(requests, pending, now)
<1>1. ASSUME NEW h \in Slots, StartSession(h)
      PROVE  ~Stored(requests, pending, now)
  <2>1. PICK op \in {"session", "app"} : JoinOrMake(h, Loaded(op))
    BY <1>1 DEF StartSession, store
  <2> QED BY <2>1, LoadedCall, MakesAlone DEF CalledBefore
<1>2. ASSUME NEW h \in Handlers, Checked(h)
      PROVE  ~Stored(requests, pending, now)
  <2> DEFINE k == calls[h]
             k1 == [k EXCEPT !.doc = NoSession(@)]
  <2>1. IsCall(k)
    BY <1>2 DEF Checked, CalledBefore, Underway
  <2>2. IsCall(k1)
    BY <2>1, DocKeeps
  <2>3. JoinOrMake(h, k1) \/ JoinOrMake(h, k)
    BY <1>2 DEF Checked
  <2> HIDE DEF k, k1
  <2> QED BY <2>1, <2>2, <2>3, MakesAlone
<1>3. \/ \E h \in Slots : StartSession(h)
      \/ \E h \in Handlers : Checked(h)
  BY DEF Next, Continue, LoginDone, Answer, Link, EngineTakes, PhoneGets, Told, Verified, Sealed,
         AnswerError, AlarmRings, Edit, Crash, Tick, vars, store
<1> QED BY <1>1, <1>2, <1>3

(* While a request is pending no session call starts another: each one     *)
(* joins it, however many come and however long the engine keeps them.     *)
THEOREM OneRequestAtATime == Spec => OneStarted
<1>1. CalledBefore /\ [Next]_vars => (pending' /= pending => ~Stored(requests, pending, now))
  BY OneStartedStep
<1>2. CalledBefore /\ [Next]_vars => CalledBefore'
  BY NextKeeps
<1> QED BY <1>1, <1>2, InitCalledBefore, PTL DEF Spec, OneStarted
-----------------------------------------------------------------------------
(* A request that the alarm will sign in for.                              *)
Waiting(rs, id) ==
  id \in DOMAIN rs /\ rs[id].due /= 0 /\ ~rs[id].started /\ rs[id].status = "pending"

Signins(id) == IF id \in DOMAIN logins THEN logins[id] ELSE 0

(* The requests a handler has in hand; whether it may sign in for them, or *)
(* has; and for which of them it has not yet.                              *)
Hand(k) == {k.req} \cup k.todo
Signs(k) == k.op \in {"session", "app", "alarm"} /\ k.await \in {"login", "taken", "ask", "asked"}
Unsigned(k) ==
  k.todo \cup (IF k.await = "login" \/ (k.await \in {"ask", "asked"} /\ k.plan = "phone_first")
               THEN {k.req} ELSE {})

(* Only a request that a phone was asked about waits for one.              *)
Asks(r) == r.id \in Nat /\ r.id < numbered /\ (r.due /= 0 => r.asked)

Named ==
  /\ numbered \in Nat \ {0} /\ crashes \in Nat
  /\ \A id \in DOMAIN requests : requests[id].id = id /\ Asks(requests[id])
  /\ \A id \in DOMAIN logins : id \in Nat /\ id < numbered /\ logins[id] \in Nat

(* What each handler is, by what it awaits.                                *)
MakesOne(k) == k.op \in {"session", "app"} /\ k.todo = {}

Role(h, k) ==
  /\ \A r \in Hand(k) : Asks(r)
  /\ k.req \notin k.todo
  /\ \/ k.await = "check" /\ MakesOne(k)
     \/ Signs(k) /\ MakesOne(k) /\ k.req.due = 0 /\ ~Waiting(requests, k.req.id)
     \/ Signs(k) /\ k.op = "alarm" /\ h = Alarm
     \/ k.op = "done" /\ k.await \in {"ask", "asked"} /\ k.todo = {} /\ k.req.due = 0
     \/ k.op \in {"answer", "link"} /\ k.await \in {"verify", "seal"} /\ k.todo = {}

Roles == \A h \in Handlers : ~Free(h) => Role(h, calls[h])

Signing(h) == ~Free(h) /\ Signs(calls[h])

OneSigner ==
  \A g, h \in Handlers : Signing(g) /\ Signing(h) =>
    \A q \in Hand(calls[g]), r \in Hand(calls[h]) : q.id = r.id => g = h /\ q = r

NotSigned ==
  \A h \in Handlers : Signing(h) => \A r \in Unsigned(calls[h]) : Signins(r.id) <= crashes

AlarmHas(id) ==
  /\ Alarm \in Handlers /\ Signing(Alarm) /\ calls[Alarm].op = "alarm"
  /\ \E r \in Hand(calls[Alarm]) : r.id = id

WaitsUnsigned ==
  \A id \in DOMAIN requests : Waiting(requests, id) => Signins(id) <= crashes \/ AlarmHas(id)

LoginInv == Named /\ Roles /\ OneSigner /\ NotSigned /\ WaitsUnsigned /\ OneLogin

(* Handler h goes on to k, or ends; what this must leave in order.         *)
MovesOn(h, k) ==
  /\ calls' = [calls EXCEPT ![h] = k] /\ UNCHANGED <<logins, crashes, numbered>>
  /\ \A id \in DOMAIN requests' : requests'[id].id = id /\ Asks(requests'[id])
  /\ \A id : Waiting(requests', id) =>
       \/ Waiting(requests, id)
       \/ Signing(h) /\ id = calls[h].req.id /\ Signins(id) <= crashes
  /\ k.op = "none" \/ (k.op /= "none" /\ Role(h, k)')
  /\ Signs(k) =>
       /\ Signing(h) /\ Hand(k) \subseteq Hand(calls[h])
       /\ \A r \in Unsigned(k) : Signins(r.id) <= crashes
  /\ Signing(h) /\ calls[h].op = "alarm" =>
       \A r \in Hand(calls[h]) : Waiting(requests', r.id) => Signs(k) /\ k.op = "alarm" /\ r \in Hand(k)

LEMMA MovesOnKeeps ==
  ASSUME CalledBefore, LoginInv, NEW h \in Handlers, NEW k, MovesOn(h, k)
  PROVE  LoginInv'
<1>1. calls'[h] = k /\ \A g \in Handlers : g /= h => calls'[g] = calls[g]
  BY DEF MovesOn, CalledBefore, Underway
<1>2. (Free(h)' <=> k.op = "none") /\ \A g \in Handlers : g /= h => (Free(g)' <=> Free(g))
  BY <1>1 DEF Free
<1>3. (Signing(h)' <=> Signs(k)) /\ \A g \in Handlers : g /= h => (Signing(g)' <=> Signing(g))
  BY <1>1, <1>2 DEF Signing, Signs
<1>4. \A id : Signins(id)' = Signins(id)
  BY DEF MovesOn, Signins
<1>5. \A r : Asks(r)' <=> Asks(r)
  BY DEF MovesOn, Asks
<1>6. Named'
  BY <1>5 DEF MovesOn, LoginInv, Named, Asks
<1>7. Roles'
  <2> SUFFICES ASSUME NEW g \in Handlers, ~Free(g)' PROVE Role(g, calls[g])'
    BY DEF Roles
  <2>1. CASE g = h
    BY <1>1, <1>2, <2>1 DEF MovesOn, Role, Hand, Signs, MakesOne
  <2>2. CASE g /= h
    <3>c. PICK c : c = calls[g]
      OBVIOUS
    <3>1. Role(g, c) /\ calls'[g] = c
      BY <1>1, <1>2, <2>2, <3>c DEF LoginInv, Roles
    <3>2. Signs(c) /\ MakesOne(c) /\ ~Waiting(requests, c.req.id) => ~Waiting(requests', c.req.id)
      <4> SUFFICES ASSUME Signs(c), ~Waiting(requests, c.req.id), Waiting(requests', c.req.id)
                   PROVE  FALSE
        OBVIOUS
      <4>1. Signing(h) /\ c.req.id = calls[h].req.id
        BY DEF MovesOn
      <4>2. Signing(g)
        BY <1>2, <2>2, <3>c DEF Signing
      <4> QED BY <2>2, <3>c, <4>1, <4>2 DEF LoginInv, OneSigner, Hand
    <3>3. Role(g, c)'
      BY <1>5, <3>1, <3>2 DEF Role
    <3> QED BY <3>1, <3>3 DEF Role, Hand, Signs, MakesOne
  <2> QED BY <2>1, <2>2
<1>8. OneSigner'
  <2> SUFFICES ASSUME NEW g \in Handlers, NEW f \in Handlers, Signing(g)', Signing(f)',
                      NEW q \in Hand(calls'[g]), NEW r \in Hand(calls'[f]), q.id = r.id
               PROVE  g = f /\ q = r
    BY DEF OneSigner, Hand
  <2>1. Signing(g) /\ q \in Hand(calls[g])
    BY <1>1, <1>3 DEF MovesOn
  <2>2. Signing(f) /\ r \in Hand(calls[f])
    BY <1>1, <1>3 DEF MovesOn
  <2> QED BY <2>1, <2>2 DEF LoginInv, OneSigner
<1>9. NotSigned'
  <2> SUFFICES ASSUME NEW g \in Handlers, Signing(g)', NEW r \in Unsigned(calls'[g])
               PROVE  Signins(r.id) <= crashes
    BY <1>4 DEF NotSigned, Unsigned, MovesOn
  <2>1. CASE g = h
    BY <1>1, <1>3, <2>1 DEF MovesOn
  <2>2. CASE g /= h
    BY <1>1, <1>3, <2>2 DEF LoginInv, NotSigned
  <2> QED BY <2>1, <2>2
<1>10. WaitsUnsigned'
  <2> SUFFICES ASSUME NEW id \in DOMAIN requests', Waiting(requests', id)
               PROVE  Signins(id) <= crashes \/ AlarmHas(id)'
    BY <1>4 DEF WaitsUnsigned, MovesOn
  <2>1. CASE Signing(h) /\ id = calls[h].req.id /\ Signins(id) <= crashes
    BY <2>1
  <2>2. CASE Waiting(requests, id)
    <3>1. Signins(id) <= crashes \/ AlarmHas(id)
      BY <2>2 DEF LoginInv, WaitsUnsigned, Waiting
    <3>2. ASSUME AlarmHas(id) PROVE AlarmHas(id)'
      <4>1. PICK r \in Hand(calls[Alarm]) : r.id = id
        BY <3>2 DEF AlarmHas
      <4>2. CASE h = Alarm
        <5>1. Signs(k) /\ k.op = "alarm" /\ r \in Hand(k)
          BY <3>2, <4>1, <4>2 DEF MovesOn, AlarmHas
        <5> QED BY <1>1, <1>3, <3>2, <4>1, <4>2, <5>1 DEF AlarmHas, Hand
      <4>3. CASE h /= Alarm
        BY <1>1, <1>3, <3>2, <4>3 DEF AlarmHas, Hand
      <4> QED BY <4>2, <4>3
    <3> QED BY <3>1, <3>2
  <2> QED BY <2>1, <2>2 DEF MovesOn
<1>11. OneLogin'
  BY DEF MovesOn, LoginInv, OneLogin
<1> QED BY <1>6, <1>7, <1>8, <1>9, <1>10, <1>11 DEF LoginInv

(* The requests, after which nothing waits that did not before.            *)
Settles(rs) ==
  \A id \in DOMAIN rs :
    rs[id].id = id /\ Asks(rs[id]) /\ (Waiting(rs, id) => Waiting(requests, id))

WaitsFor(r) == r.due /= 0 /\ ~r.started /\ r.status = "pending"

LEMMA SameSettles ==
  ASSUME LoginInv
  PROVE  Settles(requests)
BY DEF LoginInv, Named, Settles

LEMMA PutSettles ==
  ASSUME LoginInv, NEW r, Asks(r), ~WaitsFor(r)
  PROVE  Settles(Put(requests, r)) /\ ~Waiting(Put(requests, r), r.id)
BY DEF LoginInv, Named, Settles, Put, Waiting, WaitsFor

LEMMA KeptSettles ==
  ASSUME LoginInv, NEW r, Asks(r), ~WaitsFor(r), NEW at
  PROVE  Settles(Kept(r, at))
BY SameSettles, PutSettles DEF Kept

(* A handler that sees no request of its own end, or does.                 *)
LEMMA EndsSettled ==
  ASSUME CalledBefore, LoginInv, NEW h \in Handlers, Ends(h),
         UNCHANGED <<logins, crashes, numbered>>, NEW rs, Settles(rs), requests' = rs,
         Signing(h) /\ calls[h].op = "alarm" => \A r \in Hand(calls[h]) : ~Waiting(rs, r.id)
  PROVE  LoginInv'
<1>1. Idle.op = "none" /\ ~Signs(Idle)
  BY DEF Idle, Signs
<1>2. MovesOn(h, Idle)
  BY <1>1 DEF MovesOn, Ends, Settles, Waiting
<1> QED BY <1>2, MovesOnKeeps

LEMMA AwaitedCall ==
  ASSUME NEW k, IsCall(k), NEW what, NEW k1, k1 = [k EXCEPT !.await = what]
  PROVE  /\ k1.op = k.op /\ k1.req = k.req /\ k1.todo = k.todo /\ k1.plan = k.plan
         /\ k1.await = what /\ k1.at = k.at
BY DEF IsCall

(* A handler that was not signing in goes on, and does not sign in.        *)
LEMMA AwaitSettled ==
  ASSUME CalledBefore, LoginInv, NEW h \in Handlers, ~Signing(h), NEW k, IsCall(k), NEW what,
         Await(h, k, what), UNCHANGED <<logins, crashes, numbered>>,
         NEW rs, Settles(rs), requests' = rs, k.op /= "none", \A r \in Hand(k) : Asks(r), k.todo = {},
         \/ what = "check" /\ k.op \in {"session", "app"}
         \/ what \in {"ask", "asked"} /\ k.op = "done" /\ k.req.due = 0
         \/ what \in {"verify", "seal"} /\ k.op \in {"answer", "link"}
  PROVE  LoginInv'
<1>k. PICK k1 : k1 = [k EXCEPT !.await = what]
  OBVIOUS
<1>1. /\ k1.op = k.op /\ k1.req = k.req /\ k1.todo = k.todo /\ k1.await = what
  BY <1>k, AwaitedCall
<1>2. ~Signs(k1) /\ k1.op /= "none"
  BY <1>1 DEF Signs
<1>3. Role(h, k1)'
  BY <1>1 DEF Role, Hand, MakesOne, Asks
<1>4. MovesOn(h, k1)
  BY <1>k, <1>2, <1>3 DEF MovesOn, Await, Settles, Waiting
<1> QED BY <1>4, MovesOnKeeps

(* One that signs in goes on with the same request.                        *)
LEMMA SignerGoesOn ==
  ASSUME CalledBefore, LoginInv, NEW h \in Handlers, Signing(h), NEW what, Await(h, calls[h], what),
         what \in {"login", "ask", "asked"}, what = "login" => calls[h].plan = "phone_first",
         calls[h].await \in {"ask", "asked"} \/ calls[h].plan /= "phone_first",
         UNCHANGED <<logins, crashes, numbered, requests>>
  PROVE  LoginInv'
<1>c. PICK k : k = calls[h]
  OBVIOUS
<1>k. PICK k1 : k1 = [k EXCEPT !.await = what]
  OBVIOUS
<1>0. IsCall(k) /\ Role(h, k) /\ Signs(k)
  BY <1>c DEF Signing, CalledBefore, Underway, LoginInv, Roles
<1>1. /\ k1.op = k.op /\ k1.req = k.req /\ k1.todo = k.todo /\ k1.await = what /\ k1.plan = k.plan
  BY <1>0, <1>k, AwaitedCall
<1>2. Signs(k1) /\ k1.op /= "none" /\ Hand(k1) = Hand(k)
  BY <1>0, <1>1 DEF Signs, Hand
<1>3. Role(h, k1)'
  BY <1>0, <1>1, <1>2 DEF Role, MakesOne, Asks, Signs
<1>4. Unsigned(k1) \subseteq Unsigned(k)
  BY <1>c, <1>1 DEF Unsigned
<1>5. \A r \in Unsigned(k1) : Signins(r.id) <= crashes
  BY <1>c, <1>4 DEF LoginInv, NotSigned
<1>6. \A id \in DOMAIN requests' : requests'[id].id = id /\ Asks(requests'[id])
  BY DEF LoginInv, Named
<1>7. MovesOn(h, k1)
  BY <1>c, <1>k, <1>1, <1>2, <1>3, <1>5, <1>6 DEF MovesOn, Await, Waiting
<1> QED BY <1>7, MovesOnKeeps
-----------------------------------------------------------------------------
LEMMA LoadedFacts ==
  ASSUME NEW op
  PROVE  /\ Loaded(op).op = op /\ Loaded(op).todo = {} /\ Loaded(op).req = NoRequest
         /\ Loaded(op).plan = "none"
BY DEF Loaded, NoCall

LEMMA NoRequestAsks ==
  ASSUME LoginInv
  PROVE  Asks(NoRequest) /\ NoRequest.id = 0 /\ NoRequest.due = 0
BY DEF LoginInv, Named, Asks, NoRequest

(* A new request is nobody's yet, and the engine never heard of it.        *)
LEMMA MakeSigns ==
  ASSUME CalledBefore, LoginInv, NEW h \in Handlers, ~Signing(h), NEW k, IsCall(k), Make(h, k),
         MakesOne(k), UNCHANGED <<logins, crashes>>
  PROVE  LoginInv'
<1>r. PICK r : r = [NoRequest EXCEPT !.id = numbered, !.made = k.at, !.phone = k.op = "session"]
  OBVIOUS
<1>w. PICK what : what = IF Plan(k) \in {"app", "vault_first"} THEN "login" ELSE "ask"
  OBVIOUS
<1>k. PICK k1 : k1 = [k EXCEPT !.req = r, !.plan = Plan(k), !.await = what]
  OBVIOUS
<1>1. /\ numbered' = numbered + 1 /\ requests' = Put(requests, r)
      /\ calls' = [calls EXCEPT ![h] = k1]
  BY <1>r, <1>w, <1>k DEF Make, SetRequests, Await
<1>2. r.id = numbered /\ r.due = 0
  BY <1>r DEF NoRequest
<1>3. k1.op = k.op /\ k1.todo = {} /\ k1.req = r /\ k1.await = what
  BY <1>k DEF IsCall, MakesOne
<1>4. Signs(k1) /\ MakesOne(k1) /\ k1.op /= "none" /\ Hand(k1) = {r}
  BY <1>3, <1>w DEF Signs, MakesOne, Hand
<1>5. /\ numbered \in Nat \ {0} /\ crashes \in Nat
      /\ \A id \in DOMAIN requests : requests[id].id = id /\ Asks(requests[id])
      /\ \A id \in DOMAIN logins : id \in Nat /\ id < numbered /\ logins[id] \in Nat
  BY DEF LoginInv, Named
<1>6. /\ numbered \notin DOMAIN logins /\ numbered \notin DOMAIN requests
      /\ \A q : Asks(q) => q.id /= numbered
  BY <1>5 DEF Asks
<1>7. \A q : Asks(q) => Asks(q)'
  BY <1>1, <1>5 DEF Asks
<1>8. Asks(r)'
  BY <1>1, <1>2, <1>5 DEF Asks
<1>9. \A id : Waiting(requests', id) <=> Waiting(requests, id)
  BY <1>1, <1>2, <1>6 DEF Waiting, Put
<1>10. Named'
  <2>1. \A id \in DOMAIN requests' : requests'[id] = IF id = numbered THEN r ELSE requests[id]
    BY <1>1, <1>2 DEF Put
  <2>2. \A id \in DOMAIN requests' : id /= numbered => id \in DOMAIN requests
    BY <1>1, <1>2 DEF Put
  <2>3. ASSUME NEW id \in DOMAIN requests'
        PROVE  /\ requests'[id].id = id /\ requests'[id].id \in Nat
               /\ requests'[id].id < numbered + 1
               /\ requests'[id].due /= 0 => requests'[id].asked
    <3>1. CASE id = numbered
      BY <1>1, <1>2, <1>5, <2>1, <3>1 DEF Asks
    <3>2. CASE id /= numbered
      BY <1>1, <1>5, <2>1, <2>2, <3>2 DEF Asks
    <3> QED BY <3>1, <3>2
  <2>4. \A id \in DOMAIN logins : id \in Nat /\ id < numbered + 1 /\ logins[id] \in Nat
    BY <1>5
  <2> QED BY <1>1, <1>5, <2>3, <2>4 DEF Named, Asks
<1>11. calls'[h] = k1 /\ \A g \in Handlers : g /= h => calls'[g] = calls[g]
  BY <1>1 DEF CalledBefore, Underway
<1>12. ~Free(h)' /\ \A g \in Handlers : g /= h => (Free(g)' <=> Free(g)) /\ (Signing(g)' <=> Signing(g))
  BY <1>4, <1>11 DEF Free, Signing, Signs
<1>13. Roles'
  <2> SUFFICES ASSUME NEW g \in Handlers, ~Free(g)' PROVE Role(g, calls[g])'
    BY DEF Roles
  <2>1. CASE g = h
    <3>1. Role(h, k1)'
      <4>1. ~Waiting(requests', r.id)
        BY <1>2, <1>6, <1>9 DEF Waiting
      <4> QED BY <1>2, <1>3, <1>4, <1>8, <4>1 DEF Role
    <3> QED BY <1>11, <2>1, <3>1 DEF Role, Hand, Signs, MakesOne
  <2>2. CASE g /= h
    <3>c. PICK c : c = calls[g]
      OBVIOUS
    <3>1. Role(g, c) /\ calls'[g] = c
      BY <1>11, <1>12, <2>2, <3>c DEF LoginInv, Roles
    <3>2. Role(g, c)'
      BY <1>7, <1>9, <3>1 DEF Role
    <3> QED BY <3>1, <3>2 DEF Role, Hand, Signs, MakesOne
  <2> QED BY <2>1, <2>2
<1>14. OneSigner'
  <2>1. ASSUME NEW g \in Handlers, g /= h, Signing(g)', NEW q \in Hand(calls'[g])
        PROVE  q.id /= numbered /\ Signing(g) /\ calls'[g] = calls[g]
    <3>1. Signing(g) /\ calls'[g] = calls[g]
      BY <1>11, <1>12, <2>1
    <3>2. Role(g, calls[g])
      BY <3>1 DEF LoginInv, Roles, Signing
    <3> QED BY <1>6, <2>1, <3>1, <3>2 DEF Role
  <2>2. \A q \in Hand(calls'[h]) : q = r
    BY <1>4, <1>11
  <2> SUFFICES ASSUME NEW g \in Handlers, NEW f \in Handlers, Signing(g)', Signing(f)',
                      NEW q \in Hand(calls'[g]), NEW s \in Hand(calls'[f]), q.id = s.id
               PROVE  g = f /\ q = s
    BY DEF OneSigner, Hand
  <2> QED BY <1>2, <2>1, <2>2 DEF LoginInv, OneSigner
<1>15. \A id : Signins(id)' = Signins(id)
  BY DEF Signins
<1>16. NotSigned'
  <2> SUFFICES ASSUME NEW g \in Handlers, Signing(g)', NEW q \in Unsigned(calls'[g])
               PROVE  Signins(q.id) <= crashes
    BY <1>15 DEF NotSigned, Unsigned
  <2>1. CASE g = h
    <3>1. q = r
      BY <1>3, <1>11, <2>1 DEF Unsigned
    <3> QED BY <1>2, <1>5, <1>6, <3>1 DEF Signins
  <2>2. CASE g /= h
    BY <1>11, <1>12, <2>2 DEF LoginInv, NotSigned
  <2> QED BY <2>1, <2>2
<1>17. WaitsUnsigned'
  <2> SUFFICES ASSUME NEW id, Waiting(requests', id)
               PROVE  Signins(id) <= crashes \/ AlarmHas(id)'
    BY <1>15 DEF WaitsUnsigned
  <2>1. Signins(id) <= crashes \/ AlarmHas(id)
    BY <1>9 DEF LoginInv, WaitsUnsigned, Waiting
  <2>2. AlarmHas(id) => AlarmHas(id)'
    BY <1>11, <1>12 DEF AlarmHas, Hand
  <2> QED BY <2>1, <2>2
<1>18. OneLogin'
  BY DEF LoginInv, OneLogin
<1> QED BY <1>10, <1>13, <1>14, <1>16, <1>17, <1>18 DEF LoginInv

LEMMA JoinOrMakeSigns ==
  ASSUME CalledBefore, LoginInv, NEW h \in Handlers, ~Signing(h), NEW k, IsCall(k), JoinOrMake(h, k),
         MakesOne(k), UNCHANGED <<logins, crashes>>
  PROVE  LoginInv'
<1>1. CASE Join(h, k)
  BY <1>1, SameSettles, EndsSettled DEF Join
<1> QED BY <1>1, MakeSigns DEF JoinOrMake

LEMMA StartSessionSigns ==
  ASSUME CalledBefore, LoginInv, NEW h \in Handlers, StartSession(h)
  PROVE  LoginInv'
<1>1. PICK op \in {"session", "app"} :
        \/ /\ Await(h, Loaded(op), "check")
           /\ UNCHANGED <<store, numbered, settled>>
        \/ JoinOrMake(h, Loaded(op))
  BY DEF StartSession
<1>2. /\ UNCHANGED <<logins, crashes>> /\ ~Signing(h) /\ IsCall(Loaded(op))
      /\ Loaded(op).op = op /\ Loaded(op).todo = {} /\ Loaded(op).req = NoRequest
  BY LoadedCall, LoadedFacts DEF StartSession, outside, Arrives, Signing, CalledBefore
<1>3. CASE Await(h, Loaded(op), "check") /\ UNCHANGED <<store, numbered, settled>>
  <2>1. \A r \in Hand(Loaded(op)) : Asks(r)
    BY <1>2, NoRequestAsks DEF Hand
  <2>2. op /= "none"
    BY <1>1
  <2>3. requests' = requests /\ UNCHANGED <<logins, crashes, numbered>>
    BY <1>2, <1>3 DEF store
  <2> QED BY <1>2, <1>3, <2>1, <2>2, <2>3, SameSettles, AwaitSettled
<1>4. CASE JoinOrMake(h, Loaded(op))
  BY <1>2, <1>4, JoinOrMakeSigns DEF MakesOne
<1> QED BY <1>1, <1>3, <1>4

LEMMA CheckedSigns ==
  ASSUME CalledBefore, LoginInv, NEW h \in Handlers, Checked(h)
  PROVE  LoginInv'
<1>k. PICK k : k = calls[h]
  OBVIOUS
<1>k1. PICK k1 : k1 = [k EXCEPT !.doc = NoSession(@)]
  OBVIOUS
<1>1. IsCall(k) /\ Role(h, k) /\ k.await = "check" /\ UNCHANGED <<logins, crashes>>
  BY <1>k DEF Checked, outside, CalledBefore, Underway, LoginInv, Roles
<1>2. MakesOne(k) /\ ~Signing(h)
  BY <1>1, <1>k DEF Role, Signing, Signs
<1>3. IsCall(k1) /\ MakesOne(k1)
  BY <1>1, <1>2, <1>k1, DocKeeps DEF IsCall, MakesOne
<1>4. \/ Ends(h) /\ UNCHANGED <<requests, numbered>>
      \/ JoinOrMake(h, k1)
      \/ JoinOrMake(h, k)
  BY <1>k, <1>k1 DEF Checked
<1>5. CASE Ends(h) /\ UNCHANGED <<requests, numbered>>
  BY <1>1, <1>2, <1>5, SameSettles, EndsSettled
<1> QED BY <1>1, <1>2, <1>3, <1>4, <1>5, JoinOrMakeSigns

(* The engine takes a sign-in: the first of that request, but for those    *)
(* that crashes cost.                                                      *)
LEMMA EngineTakesSigns ==
  ASSUME CalledBefore, LoginInv, NEW h \in Handlers, EngineTakes(h)
  PROVE  LoginInv'
<1>k. PICK k : k = calls[h]
  OBVIOUS
<1>id. PICK id : id = k.req.id
  OBVIOUS
<1>n. PICK n : n = Signins(id) + 1
  OBVIOUS
<1>k1. PICK k1 : k1 = [k EXCEPT !.await = "taken"]
  OBVIOUS
<1>1. /\ ~Free(h) /\ k.await = "login" /\ UNCHANGED <<requests, numbered, crashes>>
      /\ logins' = [i \in DOMAIN logins \cup {id} |-> IF i = id THEN n ELSE logins[i]]
      /\ calls' = [calls EXCEPT ![h] = k1]
  BY <1>k, <1>id, <1>n, <1>k1 DEF EngineTakes, store, Signins, Await
<1>2. IsCall(k) /\ Role(h, k)
  BY <1>1, <1>k DEF CalledBefore, Underway, LoginInv, Roles
<1>3. Signs(k) /\ Signing(h)
  BY <1>1, <1>2, <1>k DEF Role, Signs, Signing
<1>4. Signins(id) <= crashes /\ Asks(k.req)
  BY <1>1, <1>2, <1>3, <1>k, <1>id DEF LoginInv, NotSigned, Unsigned, Role, Hand
<1>5. /\ numbered \in Nat \ {0} /\ crashes \in Nat /\ id \in Nat /\ id < numbered
      /\ \A i \in DOMAIN logins : i \in Nat /\ i < numbered /\ logins[i] \in Nat
  BY <1>4, <1>id DEF LoginInv, Named, Asks
<1>6. Signins(id) \in Nat /\ n \in Nat /\ n <= 1 + crashes
  BY <1>4, <1>5, <1>n DEF Signins
<1>7. /\ \A i : i /= id => Signins(i)' = Signins(i)
      /\ Signins(id)' = n
  BY <1>1 DEF Signins
<1>8. /\ k1.op = k.op /\ k1.req = k.req /\ k1.todo = k.todo /\ k1.plan = k.plan /\ k1.await = "taken"
  BY <1>2, <1>k1, AwaitedCall
<1>9. calls'[h] = k1 /\ \A g \in Handlers : g /= h => calls'[g] = calls[g]
  BY <1>1 DEF CalledBefore, Underway
<1>10. Signs(k1) /\ Hand(k1) = Hand(k) /\ k1.op /= "none"
  BY <1>3, <1>8 DEF Signs, Hand
<1>11. \A g \in Handlers : /\ Free(g)' <=> Free(g)
                           /\ Signing(g)' <=> Signing(g)
                           /\ Signing(g) => Hand(calls'[g]) = Hand(calls[g])
  BY <1>k, <1>1, <1>3, <1>9, <1>10 DEF Free, Signing
<1>12. Named'
  <2>1. \A i \in DOMAIN logins' : i \in Nat /\ i < numbered /\ logins'[i] \in Nat
    BY <1>1, <1>5, <1>6
  <2>2. \A i \in DOMAIN requests : requests[i].id = i /\ Asks(requests[i])
    BY DEF LoginInv, Named
  <2> QED BY <1>1, <1>5, <2>1, <2>2 DEF Named, Asks
<1>13. Roles'
  <2> SUFFICES ASSUME NEW g \in Handlers, ~Free(g)' PROVE Role(g, calls[g])'
    BY DEF Roles
  <2>1. CASE g = h
    <3>1. Role(h, k1)'
      BY <1>1, <1>2, <1>3, <1>8, <1>10 DEF Role, MakesOne, Asks, Waiting, Signs
    <3> QED BY <1>9, <2>1, <3>1 DEF Role, Hand, Signs, MakesOne
  <2>2. CASE g /= h
    <3>c. PICK c : c = calls[g]
      OBVIOUS
    <3>1. Role(g, c) /\ calls'[g] = c
      BY <1>9, <1>11, <2>2, <3>c DEF LoginInv, Roles
    <3>2. Role(g, c)'
      BY <1>1, <3>1 DEF Role, Asks, Waiting
    <3> QED BY <3>1, <3>2 DEF Role, Hand, Signs, MakesOne
  <2> QED BY <2>1, <2>2
<1>14. OneSigner'
  <2> SUFFICES ASSUME NEW g \in Handlers, NEW f \in Handlers, Signing(g)', Signing(f)',
                      NEW q \in Hand(calls'[g]), NEW s \in Hand(calls'[f]), q.id = s.id
               PROVE  g = f /\ q = s
    BY DEF OneSigner, Hand
  <2> QED BY <1>11 DEF LoginInv, OneSigner
<1>15. NotSigned'
  <2> SUFFICES ASSUME NEW g \in Handlers, Signing(g)', NEW q \in Unsigned(calls'[g])
               PROVE  Signins(q.id)' <= crashes
    BY <1>1 DEF NotSigned, Unsigned
  <2>1. q \in Unsigned(calls[g]) /\ q.id /= id
    <3>1. CASE g = h
      <4>1. q \in k.todo
        BY <1>8, <1>9, <3>1 DEF Unsigned
      <4>2. q /= k.req /\ q \in Hand(k) /\ k.req \in Hand(k)
        BY <1>2, <4>1 DEF Role, Hand
      <4>3. q.id /= k.req.id
        BY <1>3, <1>k, <4>2 DEF LoginInv, OneSigner
      <4> QED BY <1>k, <1>id, <3>1, <4>1, <4>3 DEF Unsigned
    <3>2. CASE g /= h
      <4>1. q \in Unsigned(calls[g]) /\ Signing(g)
        BY <1>9, <1>11, <3>2
      <4>2. q \in Hand(calls[g]) /\ k.req \in Hand(k)
        BY <4>1 DEF Unsigned, Hand
      <4> QED BY <1>3, <1>k, <1>id, <3>2, <4>1, <4>2 DEF LoginInv, OneSigner
    <3> QED BY <3>1, <3>2
  <2>2. Signins(q.id) <= crashes
    BY <1>11, <2>1 DEF LoginInv, NotSigned
  <2> QED BY <1>7, <2>1, <2>2
<1>16. WaitsUnsigned'
  <2> SUFFICES ASSUME NEW i, Waiting(requests', i)
               PROVE  Signins(i)' <= crashes \/ AlarmHas(i)'
    BY <1>1 DEF WaitsUnsigned
  <2>1. Waiting(requests, i)
    BY <1>1
  <2>2. Signins(i) <= crashes \/ AlarmHas(i)
    BY <2>1 DEF LoginInv, WaitsUnsigned, Waiting
  <2>3. AlarmHas(i) => AlarmHas(i)'
    BY <1>k, <1>8, <1>9, <1>11 DEF AlarmHas, Hand
  <2>4. CASE i = id
    <3>1. k.op = "alarm" /\ h = Alarm
      BY <1>1, <1>2, <1>id, <2>1, <2>4 DEF Role
    <3> QED BY <1>3, <1>8, <1>9, <1>11, <1>id, <2>4, <3>1 DEF AlarmHas, Hand
  <2>5. CASE i /= id
    BY <1>7, <2>2, <2>3, <2>5
  <2> QED BY <2>4, <2>5
<1>17. OneLogin'
  <2>1. \A i \in DOMAIN logins : logins[i] <= 1 + crashes
    BY DEF LoginInv, OneLogin
  <2> QED BY <1>1, <1>6, <2>1 DEF OneLogin
<1> QED BY <1>12, <1>13, <1>14, <1>15, <1>16, <1>17 DEF LoginInv

LEMMA RoleOf ==
  ASSUME CalledBefore, LoginInv, NEW h \in Handlers, ~Free(h)
  PROVE  IsCall(calls[h]) /\ Role(h, calls[h]) /\ \A r \in Hand(calls[h]) : Asks(r) /\ IsRequest(r)
BY DEF CalledBefore, Underway, LoginInv, Roles, Role, Hand, IsCall

LEMMA PhoneGetsSigns ==
  ASSUME CalledBefore, LoginInv, NEW h \in Handlers, PhoneGets(h)
  PROVE  LoginInv'
<1>k. PICK k : k = calls[h]
  OBVIOUS
<1>1. /\ ~Free(h) /\ k.await = "ask" /\ Await(h, k, "asked")
      /\ UNCHANGED <<requests, numbered, logins, crashes>>
  BY <1>k DEF PhoneGets, store
<1>2. IsCall(k) /\ Role(h, k) /\ \A r \in Hand(k) : Asks(r)
  BY <1>1, <1>k, RoleOf
<1>3. CASE Signing(h)
  BY <1>1, <1>3, <1>k, SignerGoesOn
<1>4. CASE ~Signing(h)
  <2>1. k.op = "done" /\ k.todo = {} /\ k.req.due = 0
    BY <1>1, <1>2, <1>4, <1>k DEF Role, Signing
  <2>2. k.op /= "none"
    BY <2>1
  <2> QED BY <1>1, <1>2, <1>4, <2>1, <2>2, SameSettles, AwaitSettled
<1> QED BY <1>3, <1>4

(* How the maker of a request ends, unless it leaves it to the alarm.      *)
LEMMA MakerEnds ==
  ASSUME CalledBefore, LoginInv, NEW h \in Handlers, Ends(h), ~Free(h), calls[h].op /= "alarm",
         UNCHANGED <<logins, crashes, numbered>>,
         NEW r, Asks(r), ~WaitsFor(r), NEW at,
         requests' = Kept(r, at) \/ requests' = Put(requests, r)
  PROVE  LoginInv'
<1>1. Settles(Kept(r, at)) /\ Settles(Put(requests, r))
  BY KeptSettles, PutSettles
<1> QED BY <1>1, EndsSettled

(* The phone was asked, and the alarm is to take over when the wait ends.  *)
LEMMA LeavesWaiting ==
  ASSUME CalledBefore, LoginInv, NEW h \in Handlers, Ends(h), Signing(h), calls[h].op = "session",
         Signins(calls[h].req.id) <= crashes, UNCHANGED <<logins, crashes, numbered>>,
         NEW r, Asks(r), r.id = calls[h].req.id, NEW at, requests' = Kept(r, at)
  PROVE  LoginInv'
<1>1. Idle.op = "none" /\ ~Signs(Idle)
  BY DEF Idle, Signs
<1>2. \A id \in DOMAIN requests : requests[id].id = id /\ Asks(requests[id])
  BY DEF LoginInv, Named
<1>3. \A id \in DOMAIN requests' : requests'[id].id = id /\ Asks(requests'[id])
  BY <1>2 DEF Kept, Put
<1>4. \A id : Waiting(requests', id) => Waiting(requests, id) \/ id = calls[h].req.id
  BY DEF Kept, Put, Waiting
<1>5. MovesOn(h, Idle)
  BY <1>1, <1>3, <1>4 DEF MovesOn, Ends
<1> QED BY <1>5, MovesOnKeeps

LEMMA BeginSigns ==
  ASSUME CalledBefore, LoginInv, NEW h \in Handlers, NEW ok, ~Free(h),
         UNCHANGED <<logins, crashes, numbered>>,
         \/ calls[h].await \in {"taken", "login"} /\ BeginLogin(h, calls[h], ok)
         \/ calls[h].await \in {"asked", "ask"} /\ BeginAsk(h, calls[h], ok)
  PROVE  LoginInv'
<1>k. PICK k : k = calls[h]
  OBVIOUS
<1>s. PICK s : s = [k.req EXCEPT !.started = TRUE]
  OBVIOUS
<1>f. PICK f : f = Failed(k.req)
  OBVIOUS
<1>a. PICK a : a = [k.req EXCEPT !.asked = TRUE, !.due = IF k.plan = "phone_first" THEN k.at + Wait ELSE 0]
  OBVIOUS
<1>0. k.op = "session" /\ k.await \in {"taken", "login", "asked", "ask"}
  BY <1>k DEF BeginLogin, BeginAsk
<1>1. IsCall(k) /\ Role(h, k) /\ Asks(k.req) /\ IsRequest(k.req)
  BY <1>k, RoleOf DEF Hand
<1>2. Signing(h) /\ k.op /= "alarm" /\ k.req.due = 0
  BY <1>0, <1>1, <1>k DEF Signing, Signs, Role
<1>3. /\ Asks(s) /\ ~WaitsFor(s) /\ Asks(f) /\ ~WaitsFor(f)
      /\ Asks(a) /\ a.id = k.req.id /\ (k.plan /= "phone_first" => ~WaitsFor(a))
  BY <1>1, <1>s, <1>f, <1>a DEF IsRequest, Asks, WaitsFor, Failed
<1>4. \/ SessionEnds(h, k, s) \/ SessionEnds(h, k, f)
      \/ k.await \in {"asked", "ask"} /\ SessionEnds(h, k, a)
      \/ k.plan = "vault_first" /\ Await(h, k, "ask") /\ requests' = requests
      \/ k.await \in {"asked", "ask"} /\ k.plan = "phone_first" /\ Await(h, k, "login") /\ requests' = requests
  BY <1>k, <1>s, <1>f, <1>a DEF BeginLogin, BeginAsk
<1>5. CASE SessionEnds(h, k, s) \/ SessionEnds(h, k, f)
  <2>1. PICK r \in {s, f} : Ends(h) /\ requests' = Kept(r, k.at)
    BY <1>5 DEF SessionEnds, SetRequests
  <2>2. Asks(r) /\ ~WaitsFor(r)
    BY <1>3
  <2> QED BY <1>2, <1>k, <2>1, <2>2, MakerEnds
<1>6. CASE k.await \in {"asked", "ask"} /\ SessionEnds(h, k, a)
  <2>1. Ends(h) /\ requests' = Kept(a, k.at)
    BY <1>6 DEF SessionEnds, SetRequests
  <2>2. CASE k.plan = "phone_first"
    <3>1. Signins(k.req.id) <= crashes
      BY <1>2, <1>6, <1>k, <2>2 DEF LoginInv, NotSigned, Unsigned
    <3> QED BY <1>0, <1>2, <1>3, <1>k, <2>1, <3>1, LeavesWaiting
  <2>3. CASE k.plan /= "phone_first"
    BY <1>2, <1>3, <1>k, <2>1, <2>3, MakerEnds
  <2> QED BY <2>2, <2>3
<1>7. CASE k.plan = "vault_first" /\ Await(h, k, "ask") /\ requests' = requests
  <2>1. k.plan /= "phone_first"
    BY <1>7
  <2> QED BY <1>2, <1>7, <1>k, <2>1, SignerGoesOn
<1>8. CASE k.await \in {"asked", "ask"} /\ k.plan = "phone_first" /\ Await(h, k, "login") /\ requests' = requests
  BY <1>2, <1>8, <1>k, SignerGoesOn
<1> QED BY <1>4, <1>5, <1>6, <1>7, <1>8

LEMMA AppLoginSigns ==
  ASSUME CalledBefore, LoginInv, NEW h \in Handlers, NEW ok, ~Free(h),
         UNCHANGED <<logins, crashes, numbered>>,
         calls[h].await \in {"taken", "login"}, AppLogin(h, calls[h], ok)
  PROVE  LoginInv'
<1>k. PICK k : k = calls[h]
  OBVIOUS
<1>s. PICK s : s = [k.req EXCEPT !.started = TRUE]
  OBVIOUS
<1>f. PICK f : f = Failed(k.req)
  OBVIOUS
<1>0. k.op = "app"
  BY <1>k DEF AppLogin
<1>1. Asks(k.req) /\ IsRequest(k.req)
  BY <1>k, RoleOf DEF Hand
<1>2. Asks(s) /\ ~WaitsFor(s) /\ Asks(f) /\ ~WaitsFor(f)
  BY <1>1, <1>s, <1>f DEF IsRequest, Asks, WaitsFor, Failed
<1>3. PICK r \in {s, f} : Ends(h) /\ (requests' = Kept(r, k.at) \/ requests' = Put(requests, r))
  BY <1>k, <1>s, <1>f DEF AppLogin, AppEnds, SetRequests
<1>4. Asks(r) /\ ~WaitsFor(r) /\ k.op /= "alarm"
  BY <1>0, <1>2
<1> QED BY <1>3, <1>4, <1>k, MakerEnds

(* The alarm goes from one request to the next; what it leaves behind has  *)
(* started, or waits no more.                                              *)
LEMMA AlarmLoginSigns ==
  ASSUME CalledBefore, LoginInv, NEW h \in Handlers, NEW ok, ~Free(h),
         UNCHANGED <<logins, crashes, numbered>>,
         calls[h].await \in {"taken", "login"}, AlarmLogin(calls[h], ok)
  PROVE  LoginInv'
<1>k. PICK k : k = calls[h]
  OBVIOUS
<1>r. PICK r : r = IF ok THEN [k.req EXCEPT !.started = TRUE] ELSE [k.req EXCEPT !.due = 0]
  OBVIOUS
<1>0. k.op = "alarm"
  BY <1>k DEF AlarmLogin
<1>1. IsCall(k) /\ Role(h, k) /\ Asks(k.req) /\ IsRequest(k.req)
  BY <1>k, RoleOf DEF Hand
<1>2. h = Alarm /\ Signs(k) /\ Signing(h)
  BY <1>0, <1>1, <1>k DEF Role, MakesOne, Signing
<1>3. Asks(r) /\ ~WaitsFor(r) /\ r.id = k.req.id
  BY <1>1, <1>r DEF IsRequest, Asks, WaitsFor
<1>rs. PICK rs : rs = Put(requests, r)
  OBVIOUS
<1>4. Settles(rs) /\ ~Waiting(rs, k.req.id)
  BY <1>3, <1>rs, PutSettles
<1>5. \/ k.todo = {} /\ AlarmEnds(k, rs)
      \/ /\ \E next \in k.todo :
              Await(Alarm, [k EXCEPT !.req = next, !.todo = @ \ {next}], "login")
         /\ requests' = rs
  BY <1>k, <1>r, <1>rs DEF AlarmLogin, SetRequests
<1>6. CASE k.todo = {} /\ AlarmEnds(k, rs)
  <2>1. Ends(h) /\ requests' = rs
    BY <1>2, <1>6 DEF AlarmEnds, SetRequests
  <2>2. \A q \in Hand(calls[h]) : ~Waiting(rs, q.id)
    BY <1>4, <1>6, <1>k DEF Hand
  <2> QED BY <1>4, <2>1, <2>2, EndsSettled
<1>7. ASSUME NEW next \in k.todo, requests' = rs,
             Await(Alarm, [k EXCEPT !.req = next, !.todo = @ \ {next}], "login")
      PROVE  LoginInv'
  <2>k1. PICK k1 : k1 = [[k EXCEPT !.req = next, !.todo = @ \ {next}] EXCEPT !.await = "login"]
    OBVIOUS
  <2>1. k1.op = "alarm" /\ k1.req = next /\ k1.todo = k.todo \ {next} /\ k1.await = "login"
    BY <1>0, <1>1, <2>k1 DEF IsCall
  <2>2. Signs(k1) /\ k1.op /= "none" /\ Hand(k1) = k.todo /\ Unsigned(k1) = k.todo
    BY <1>7, <2>1 DEF Signs, Hand, Unsigned
  <2>3. \A q \in k.todo : Asks(q)' /\ Signins(q.id) <= crashes
    <3>1. \A q \in k.todo : Asks(q)
      BY <1>1 DEF Role, Hand
    <3>2. \A q \in k.todo : q \in Unsigned(calls[h])
      BY <1>k DEF Unsigned
    <3> QED BY <1>2, <3>1, <3>2 DEF LoginInv, NotSigned, Asks
  <2>4. Role(h, k1)'
    BY <1>2, <2>1, <2>2, <2>3 DEF Role
  <2>5. \A q \in Hand(calls[h]) : Waiting(requests', q.id) => q \in Hand(k1)
    BY <1>4, <1>7, <1>k, <2>2 DEF Hand
  <2>6. calls' = [calls EXCEPT ![h] = k1]
    BY <1>2, <1>7, <2>k1 DEF Await
  <2>7. MovesOn(h, k1)
    <3>1. \A id \in DOMAIN requests' : requests'[id].id = id /\ Asks(requests'[id])
      BY <1>4, <1>7 DEF Settles
    <3>2. \A id : Waiting(requests', id) => Waiting(requests, id)
      BY <1>4, <1>7 DEF Settles, Waiting
    <3>3. Hand(k1) \subseteq Hand(calls[h])
      BY <1>k, <2>2 DEF Hand
    <3> QED BY <1>2, <2>1, <2>2, <2>3, <2>4, <2>5, <2>6, <3>1, <3>2, <3>3 DEF MovesOn
  <2> QED BY <2>7, MovesOnKeeps
<1> QED BY <1>5, <1>6, <1>7

(* DoneEnds writes back what it read, or its own request.                  *)
LEMMA DoneEndsSigns ==
  ASSUME CalledBefore, LoginInv, NEW h \in Handlers, ~Signing(h), NEW k, DoneEnds(h, k),
         UNCHANGED <<logins, crashes, numbered>>,
         \/ k.req.id = 0
         \/ Asks(k.req) /\ ~WaitsFor(k.req)
         \/ k.req.id \in DOMAIN requests /\ k.req = requests[k.req.id]
  PROVE  LoginInv'
<1>1. Ends(h) /\ requests' = IF k.req.id = 0 THEN requests ELSE Put(requests, k.req)
  BY DEF DoneEnds, SetRequests
<1>2. CASE k.req.id = 0
  BY <1>1, <1>2, SameSettles, EndsSettled
<1>3. CASE k.req.id /= 0 /\ Asks(k.req) /\ ~WaitsFor(k.req)
  <2>1. Settles(Put(requests, k.req))
    BY <1>3, PutSettles
  <2> QED BY <1>1, <1>3, <2>1, EndsSettled
<1>4. CASE k.req.id /= 0 /\ k.req.id \in DOMAIN requests /\ k.req = requests[k.req.id]
  <2>1. Settles(Put(requests, k.req))
    BY <1>4 DEF LoginInv, Named, Settles, Put, Waiting
  <2> QED BY <1>1, <1>4, <2>1, EndsSettled
<1> QED BY <1>2, <1>3, <1>4

LEMMA DoneAskSigns ==
  ASSUME CalledBefore, LoginInv, NEW h \in Handlers, NEW ok, ~Free(h),
         UNCHANGED <<logins, crashes, numbered>>, DoneAsk(h, calls[h], ok)
  PROVE  LoginInv'
<1>k. PICK k : k = calls[h]
  OBVIOUS
<1>k1. PICK k1 : k1 = [k EXCEPT !.req = IF ok THEN [@ EXCEPT !.asked = TRUE] ELSE Failed(@)]
  OBVIOUS
<1>1. k.op = "done" /\ DoneEnds(h, k1)
  BY <1>k, <1>k1 DEF DoneAsk
<1>2. IsCall(k) /\ Role(h, k) /\ Asks(k.req) /\ IsRequest(k.req)
  BY <1>k, RoleOf DEF Hand
<1>3. ~Signing(h) /\ k.req.due = 0
  BY <1>1, <1>2, <1>k DEF Role, Signing, Signs, MakesOne
<1>4. k1.req = IF ok THEN [k.req EXCEPT !.asked = TRUE] ELSE Failed(k.req)
  BY <1>2, <1>k1 DEF IsCall
<1>5. Asks(k1.req) /\ ~WaitsFor(k1.req)
  BY <1>2, <1>3, <1>4 DEF IsRequest, Asks, WaitsFor, Failed
<1> QED BY <1>1, <1>3, <1>5, DoneEndsSigns

LEMMA ToldSigns ==
  ASSUME CalledBefore, LoginInv, NEW h \in Handlers, NEW ok, Told(h, ok)
  PROVE  LoginInv'
<1>1. ~Free(h) /\ UNCHANGED <<logins, crashes, numbered>>
  BY DEF Told, outside
<1>2. \/ /\ calls[h].await \in {"taken", "login"}
         /\ BeginLogin(h, calls[h], ok) \/ AppLogin(h, calls[h], ok) \/ AlarmLogin(calls[h], ok)
      \/ /\ calls[h].await \in {"asked", "ask"}
         /\ BeginAsk(h, calls[h], ok) \/ DoneAsk(h, calls[h], ok)
  BY DEF Told
<1> QED BY <1>1, <1>2, BeginSigns, AppLoginSigns, AlarmLoginSigns, DoneAskSigns

LEMMA LoginFailsSigns ==
  ASSUME CalledBefore, LoginInv, NEW h \in Handlers, ~Signing(h), NEW k, IsCall(k),
         LoginFails(h, k), UNCHANGED <<logins, crashes, numbered>>,
         k.op = "done", k.todo = {}, Asks(k.req),
         k.req.id = 0 \/ (k.req.id \in DOMAIN requests /\ k.req = requests[k.req.id])
  PROVE  LoginInv'
<1>k1. PICK k1 : k1 = [k EXCEPT !.req = Failed(@)]
  OBVIOUS
<1>1. \/ ~k.req.asked /\ Await(h, k, "ask") /\ requests' = requests
      \/ DoneEnds(h, k1)
      \/ DoneEnds(h, k)
  BY <1>k1 DEF LoginFails
<1>2. k1.req = Failed(k.req) /\ IsRequest(k.req)
  BY <1>k1 DEF IsCall
<1>3. CASE ~k.req.asked /\ Await(h, k, "ask") /\ requests' = requests
  <2>1. k.req.due = 0 /\ \A r \in Hand(k) : Asks(r)
    BY <1>3 DEF Asks, Hand
  <2>2. k.op /= "none"
    OBVIOUS
  <2> QED BY <1>3, <2>1, <2>2, SameSettles, AwaitSettled
<1>4. CASE DoneEnds(h, k1)
  <2>1. Asks(k1.req) /\ ~WaitsFor(k1.req)
    BY <1>2 DEF IsRequest, Asks, WaitsFor, Failed
  <2> QED BY <1>4, <2>1, DoneEndsSigns
<1>5. CASE DoneEnds(h, k)
  BY <1>5, DoneEndsSigns
<1> QED BY <1>1, <1>3, <1>4, <1>5

LEMMA LoginDoneSigns ==
  ASSUME CalledBefore, LoginInv, NEW h \in Handlers, LoginDone(h)
  PROVE  LoginInv'
<1>1. PICK job \in jobs :
        LET r == IF job.id \in DOMAIN requests THEN requests[job.id] ELSE NoRequest
            k == [Loaded("done") EXCEPT !.req = r]
        IN \/ DoneEnds(h, [k EXCEPT !.doc = NewSession(@, now),
                             !.req = IF Pending(r, now) THEN [r EXCEPT !.status = "success"] ELSE r])
           \/ LoginFails(h, [k EXCEPT !.doc = Rejected(@)])
           \/ LoginFails(h, [k EXCEPT !.doc = NoVault(@)])
           \/ LoginFails(h, k)
           \/ LoginFails(h, [k EXCEPT !.doc.vault = Fresh(@)])
  BY DEF LoginDone
<1>r. PICK r : r = IF job.id \in DOMAIN requests THEN requests[job.id] ELSE NoRequest
  OBVIOUS
<1>k. PICK k : k = [Loaded("done") EXCEPT !.req = r]
  OBVIOUS
<1>q. PICK q : q = IF Pending(r, now) THEN [r EXCEPT !.status = "success"] ELSE r
  OBVIOUS
<1>d. PICK d : d = [k EXCEPT !.doc = NewSession(@, now), !.req = q]
  OBVIOUS
<1>2. ~Signing(h) /\ UNCHANGED <<logins, crashes, numbered>>
  BY DEF LoginDone, Signing
<1>3. IsRequest(r) /\ Asks(r) /\ (r.id = 0 \/ (r.id \in DOMAIN requests /\ r = requests[r.id]))
  BY <1>r, NoRequestAsks DEF CalledBefore, Requests, IsRequest, NoRequest, LoginInv, Named
<1>4. IsCall(k) /\ k.op = "done" /\ k.todo = {} /\ k.req = r
  <2>1. IsCall(Loaded("done"))
    BY LoadedCall DEF CalledBefore
  <2>2. Loaded("done").op = "done" /\ Loaded("done").todo = {}
    BY LoadedFacts
  <2> QED BY <1>3, <1>k, <2>1, <2>2, ReqKeeps DEF IsCall
<1>5. d.req = q
  BY <1>4, <1>d DEF IsCall
<1>6. \/ q = r
      \/ q.status = "success" /\ q.id = r.id /\ Asks(q) /\ ~WaitsFor(q)
  BY <1>3, <1>q DEF IsRequest, Asks, WaitsFor
<1>7. CASE DoneEnds(h, d)
  <2>1. \/ d.req.id = 0
        \/ Asks(d.req) /\ ~WaitsFor(d.req)
        \/ d.req.id \in DOMAIN requests /\ d.req = requests[d.req.id]
    BY <1>3, <1>5, <1>6
  <2> QED BY <1>2, <1>7, <2>1, DoneEndsSigns
<1>8. ASSUME NEW e, LoginFails(h, [k EXCEPT !.doc = e]) PROVE LoginInv'
  <2>x. PICK x : x = [k EXCEPT !.doc = e]
    OBVIOUS
  <2>1. IsCall(x) /\ x.op = "done" /\ x.todo = {} /\ x.req = r
    BY <1>4, <2>x, DocKeeps DEF IsCall
  <2> QED BY <1>2, <1>3, <1>8, <2>1, <2>x, LoginFailsSigns
<1>9. CASE LoginFails(h, k)
  BY <1>2, <1>3, <1>4, <1>9, LoginFailsSigns
<1>10. \/ DoneEnds(h, d) \/ LoginFails(h, k) \/ \E e : LoginFails(h, [k EXCEPT !.doc = e])
  BY <1>1, <1>r, <1>k, <1>q, <1>d
<1> QED BY <1>7, <1>8, <1>9, <1>10

LEMMA AnswerSigns ==
  ASSUME CalledBefore, LoginInv, NEW h \in Handlers, Answer(h)
  PROVE  LoginInv'
<1>1. PICK id \in DOMAIN requests :
        Await(h, [Loaded("answer") EXCEPT !.req = requests[id]], "verify")
  BY DEF Answer
<1>2. ~Signing(h) /\ UNCHANGED <<logins, crashes, numbered, requests>>
  BY DEF Answer, store, Signing
<1>k. PICK k : k = [Loaded("answer") EXCEPT !.req = requests[id]]
  OBVIOUS
<1>3. IsCall(Loaded("answer")) /\ IsRequest(requests[id]) /\ Asks(requests[id])
  BY LoadedCall DEF CalledBefore, Requests, LoginInv, Named
<1>4. IsCall(k) /\ k.op = "answer" /\ k.todo = {} /\ k.req = requests[id]
  <2>1. Loaded("answer").op = "answer" /\ Loaded("answer").todo = {}
    BY LoadedFacts
  <2> QED BY <1>3, <1>k, <2>1, ReqKeeps DEF IsCall
<1>5. k.op /= "none" /\ \A r \in Hand(k) : Asks(r)
  BY <1>3, <1>4 DEF Hand
<1> QED BY <1>1, <1>2, <1>4, <1>5, <1>k, SameSettles, AwaitSettled

LEMMA VerifiedSigns ==
  ASSUME CalledBefore, LoginInv, NEW h \in Handlers, Verified(h)
  PROVE  LoginInv'
<1>k. PICK k : k = calls[h]
  OBVIOUS
<1>k1. PICK k1 : k1 = [k EXCEPT !.doc = NewSession(@, k.at)]
  OBVIOUS
<1>1. ~Free(h) /\ k.await = "verify" /\ UNCHANGED <<logins, crashes, numbered>>
  BY <1>k DEF Verified
<1>2. IsCall(k) /\ Role(h, k) /\ Asks(k.req) /\ IsRequest(k.req)
  BY <1>1, <1>k, RoleOf DEF Hand
<1>3. ~Signing(h) /\ k.op \in {"answer", "link"} /\ k.todo = {}
  BY <1>1, <1>2, <1>k DEF Role, Signing, Signs
<1>4. \/ requests' = requests
      \/ \E status \in {"success", "error"} : requests' = Put(requests, [k.req EXCEPT !.status = status])
  BY <1>k DEF Verified, SetRequests
<1>5. \A status \in {"success", "error"} : Settles(Put(requests, [k.req EXCEPT !.status = status]))
  <2> SUFFICES ASSUME NEW status \in {"success", "error"}
               PROVE  Settles(Put(requests, [k.req EXCEPT !.status = status]))
    OBVIOUS
  <2>r. PICK r : r = [k.req EXCEPT !.status = status]
    OBVIOUS
  <2>1. Asks(r) /\ ~WaitsFor(r)
    BY <1>2, <2>r DEF IsRequest, Asks, WaitsFor
  <2> QED BY <2>1, <2>r, PutSettles
<1>6. PICK rs : Settles(rs) /\ requests' = rs
  BY <1>4, <1>5, SameSettles
<1>7. Ends(h) \/ Await(h, k1, "seal")
  BY <1>k, <1>k1 DEF Verified
<1>8. CASE Ends(h)
  BY <1>1, <1>3, <1>6, <1>8, EndsSettled
<1>9. CASE Await(h, k1, "seal")
  <2>1. IsCall(k1) /\ k1.op = k.op /\ k1.todo = {} /\ k1.req = k.req
    BY <1>2, <1>3, <1>k1, DocKeeps DEF IsCall
  <2>2. k1.op /= "none" /\ k1.op \in {"answer", "link"} /\ \A r \in Hand(k1) : Asks(r)
    BY <1>2, <1>3, <2>1 DEF Hand
  <2> QED BY <1>1, <1>3, <1>6, <1>9, <2>1, <2>2, AwaitSettled
<1> QED BY <1>7, <1>8, <1>9

LEMMA SealedSigns ==
  ASSUME CalledBefore, LoginInv, NEW h \in Handlers, Sealed(h)
  PROVE  LoginInv'
<1>1. /\ ~Free(h) /\ calls[h].await = "seal" /\ Ends(h)
      /\ UNCHANGED <<logins, crashes, numbered, requests>>
  BY DEF Sealed, outside
<1>2. ~Signing(h)
  BY <1>1 DEF Signing, Signs
<1> QED BY <1>1, <1>2, SameSettles, EndsSettled

LEMMA LinkSigns ==
  ASSUME CalledBefore, LoginInv, NEW h \in Handlers, Link(h)
  PROVE  LoginInv'
<1>k. PICK k : k = [Loaded("link") EXCEPT !.doc = NewSession(@, now)]
  OBVIOUS
<1>1. /\ Await(h, k, "seal") /\ ~Signing(h) /\ UNCHANGED <<logins, crashes, numbered, requests>>
  BY <1>k DEF Link, store, outside, Arrives, Signing
<1>2. IsCall(k) /\ k.op = "link" /\ k.todo = {} /\ k.req = NoRequest
  <2>1. IsCall(Loaded("link"))
    BY LoadedCall DEF CalledBefore
  <2>2. Loaded("link").op = "link" /\ Loaded("link").todo = {} /\ Loaded("link").req = NoRequest
    BY LoadedFacts
  <2> QED BY <1>k, <2>1, <2>2, DocKeeps DEF IsCall
<1>3. k.op /= "none" /\ \A r \in Hand(k) : Asks(r)
  BY <1>2, NoRequestAsks DEF Hand
<1> QED BY <1>1, <1>2, <1>3, SameSettles, AwaitSettled

(* The alarm rings: it has in hand what waits, and nobody else has.        *)
LEMMA AlarmRingsSigns ==
  ASSUME CalledBefore, LoginInv, AlarmRings
  PROVE  LoginInv'
<1>young. PICK young :
     young = [id \in {id \in DOMAIN requests : now < requests[id].made + Keep} |-> requests[id]]
  OBVIOUS
<1>due. PICK due : due = DueNow(young, now)
  OBVIOUS
<1>quiet. PICK quiet :
     quiet = [id \in DOMAIN young |->
                IF young[id] \in due THEN [young[id] EXCEPT !.due = 0] ELSE young[id]]
  OBVIOUS
<1>1. /\ Free(Alarm) /\ ~Signing(Alarm) /\ Alarm \in Handlers /\ UNCHANGED <<logins, crashes, numbered>>
  BY DEF AlarmRings, outside, Signing, Handlers
<1>2. \/ Ends(Alarm) /\ requests' = quiet
      \/ /\ \E r \in due : Await(Alarm, [Loaded("alarm") EXCEPT !.req = r, !.todo = due \ {r}], "login")
         /\ requests' = young
  BY <1>young, <1>due, <1>quiet DEF AlarmRings, AlarmEnds, SetRequests
<1>3. /\ DOMAIN young \subseteq DOMAIN requests
      /\ \A id \in DOMAIN young : young[id] = requests[id] /\ IsRequest(young[id])
  BY <1>young DEF CalledBefore, Requests
<1>4. Settles(young)
  BY <1>3 DEF LoginInv, Named, Settles, Waiting
<1>5. Settles(quiet)
  <2>1. DOMAIN quiet = DOMAIN young
    BY <1>quiet
  <2> SUFFICES ASSUME NEW id \in DOMAIN young
               PROVE  quiet[id].id = id /\ Asks(quiet[id]) /\ (Waiting(quiet, id) => Waiting(requests, id))
    BY <2>1 DEF Settles
  <2>2. quiet[id] = IF young[id] \in due THEN [young[id] EXCEPT !.due = 0] ELSE young[id]
    BY <1>quiet
  <2>3. young[id].id = id /\ Asks(young[id]) /\ (Waiting(young, id) => Waiting(requests, id))
    BY <1>4 DEF Settles
  <2>4. CASE young[id] \in due
    <3>1. quiet[id].id = id /\ quiet[id].due = 0
      BY <1>3, <2>2, <2>3, <2>4 DEF IsRequest
    <3> QED BY <2>3, <3>1 DEF Asks, Waiting
  <2>5. CASE young[id] \notin due
    BY <2>1, <2>2, <2>3, <2>5 DEF Waiting
  <2> QED BY <2>4, <2>5
<1>6. CASE Ends(Alarm) /\ requests' = quiet
  BY <1>1, <1>5, <1>6, EndsSettled
<1>7. ASSUME NEW r \in due, requests' = young,
             Await(Alarm, [Loaded("alarm") EXCEPT !.req = r, !.todo = due \ {r}], "login")
      PROVE  LoginInv'
  <2>k. PICK k : k = [[Loaded("alarm") EXCEPT !.req = r, !.todo = due \ {r}] EXCEPT !.await = "login"]
    OBVIOUS
  <2>1. /\ k.op = "alarm" /\ k.req = r /\ k.todo = due \ {r} /\ k.await = "login"
        /\ calls' = [calls EXCEPT ![Alarm] = k]
    BY <1>7, <2>k DEF Await, Loaded, NoCall
  <2>2. Signs(k) /\ Hand(k) = due /\ Unsigned(k) = due /\ k.op /= "none"
    BY <1>7, <2>1 DEF Signs, Hand, Unsigned
  <2>3. \A q \in due : q.id \in DOMAIN requests /\ q = requests[q.id] /\ Asks(q) /\ Waiting(requests, q.id)
    <3> SUFFICES ASSUME NEW q \in due
                 PROVE  q.id \in DOMAIN requests /\ q = requests[q.id] /\ Asks(q) /\ Waiting(requests, q.id)
      OBVIOUS
    <3>1. PICK id \in DOMAIN young : q = young[id] /\ q.due /= 0 /\ ~q.started /\ q.status = "pending"
      BY <1>due DEF DueNow, Pending
    <3>2. q.id = id /\ q = requests[id] /\ id \in DOMAIN requests /\ Asks(q)
      BY <1>3, <3>1 DEF LoginInv, Named
    <3> QED BY <3>1, <3>2 DEF Waiting
  <2>4. \A id : ~AlarmHas(id)
    BY <1>1 DEF AlarmHas
  <2>5. \A q \in due : Signins(q.id) <= crashes
    BY <2>3, <2>4 DEF LoginInv, WaitsUnsigned
  <2>6. calls'[Alarm] = k /\ \A g \in Handlers : g /= Alarm => calls'[g] = calls[g]
    BY <1>1, <2>1 DEF CalledBefore, Underway
  <2>7. ~Free(Alarm)' /\ \A g \in Handlers : g /= Alarm => (Free(g)' <=> Free(g)) /\ (Signing(g)' <=> Signing(g))
    BY <2>2, <2>6 DEF Free, Signing, Signs
  <2>8. \A id : Waiting(requests', id) => Waiting(requests, id)
    BY <1>4, <1>7 DEF Settles, Waiting
  <2>9. Named'
    BY <1>1, <1>4, <1>7 DEF LoginInv, Named, Settles, Asks
  <2>10. \A id : Signins(id)' = Signins(id)
    BY <1>1 DEF Signins
  <2>11. Roles'
    <3> SUFFICES ASSUME NEW g \in Handlers, ~Free(g)' PROVE Role(g, calls[g])'
      BY DEF Roles
    <3>1. CASE g = Alarm
      <4>1. Role(Alarm, k)'
        BY <1>1, <2>1, <2>2, <2>3 DEF Role, Asks
      <4> QED BY <2>6, <3>1, <4>1 DEF Role, Hand, Signs, MakesOne
    <3>2. CASE g /= Alarm
      <4>c. PICK c : c = calls[g]
        OBVIOUS
      <4>1. Role(g, c) /\ calls'[g] = c
        BY <2>6, <2>7, <3>2, <4>c DEF LoginInv, Roles
      <4>2. Role(g, c)'
        BY <1>1, <2>8, <4>1 DEF Role, Asks
      <4> QED BY <4>1, <4>2 DEF Role, Hand, Signs, MakesOne
    <3> QED BY <3>1, <3>2
  <2>12. OneSigner'
    <3>1. ASSUME NEW g \in Handlers, g /= Alarm, Signing(g)', NEW q \in Hand(calls'[g])
          PROVE  /\ Signing(g) /\ calls'[g] = calls[g]
                 /\ \A s \in due : s.id /= q.id
      <4>1. Signing(g) /\ calls'[g] = calls[g]
        BY <2>6, <2>7, <3>1
      <4>2. Role(g, calls[g]) /\ Signs(calls[g])
        BY <4>1 DEF LoginInv, Roles, Signing
      <4>3. ~Waiting(requests, q.id)
        BY <3>1, <4>1, <4>2 DEF Role, Hand, MakesOne, Signs
      <4> QED BY <2>3, <4>1, <4>3
    <3>2. calls'[Alarm] = k /\ Hand(k) = due
      BY <2>2, <2>6
    <3> SUFFICES ASSUME NEW g \in Handlers, NEW f \in Handlers, Signing(g)', Signing(f)',
                        NEW q \in Hand(calls'[g]), NEW s \in Hand(calls'[f]), q.id = s.id
                 PROVE  g = f /\ q = s
      BY DEF OneSigner, Hand
    <3> QED BY <2>3, <3>1, <3>2 DEF LoginInv, OneSigner
  <2>13. NotSigned'
    <3> SUFFICES ASSUME NEW g \in Handlers, Signing(g)', NEW q \in Unsigned(calls'[g])
                 PROVE  Signins(q.id) <= crashes
      BY <1>1, <2>10 DEF NotSigned, Unsigned
    <3>1. CASE g = Alarm
      BY <2>2, <2>5, <2>6, <3>1
    <3>2. CASE g /= Alarm
      BY <2>6, <2>7, <3>2 DEF LoginInv, NotSigned
    <3> QED BY <3>1, <3>2
  <2>14. WaitsUnsigned'
    BY <1>1, <2>4, <2>8, <2>10 DEF LoginInv, WaitsUnsigned, Waiting
  <2>15. OneLogin'
    BY <1>1 DEF LoginInv, OneLogin
  <2> QED BY <2>9, <2>11, <2>12, <2>13, <2>14, <2>15 DEF LoginInv
<1> QED BY <1>2, <1>6, <1>7

(* What moves no handler, or loses them all.                               *)
LEMMA StillSigns ==
  ASSUME CalledBefore, LoginInv, UNCHANGED <<calls, logins, crashes, numbered>>,
         NEW rs, Settles(rs), requests' = rs
  PROVE  LoginInv'
<1>1. \A id : Waiting(requests', id) => Waiting(requests, id)
  BY DEF Settles, Waiting
<1>2. Named'
  BY DEF LoginInv, Named, Settles, Asks
<1>3. \A g : (Free(g)' <=> Free(g)) /\ (Signing(g)' <=> Signing(g))
  BY DEF Free, Signing, Signs
<1>4. Roles'
  <2> SUFFICES ASSUME NEW g \in Handlers, ~Free(g)' PROVE Role(g, calls[g])'
    BY DEF Roles
  <2>c. PICK c : c = calls[g]
    OBVIOUS
  <2>1. Role(g, c) /\ calls'[g] = c
    BY <1>3, <2>c DEF LoginInv, Roles
  <2>2. Role(g, c)'
    BY <1>1, <2>1 DEF Role, Asks
  <2> QED BY <2>1, <2>2 DEF Role, Hand, Signs, MakesOne
<1>5. OneSigner'
  BY <1>3 DEF LoginInv, OneSigner, Hand
<1>6. \A id : Signins(id)' = Signins(id)
  BY DEF Signins
<1>7. NotSigned'
  BY <1>3, <1>6 DEF LoginInv, NotSigned, Unsigned
<1>8. \A id : AlarmHas(id) => AlarmHas(id)'
  BY <1>3 DEF AlarmHas, Hand
<1>9. WaitsUnsigned'
  BY <1>1, <1>6, <1>8 DEF LoginInv, WaitsUnsigned, Waiting
<1>10. OneLogin'
  BY DEF LoginInv, OneLogin
<1> QED BY <1>2, <1>4, <1>5, <1>7, <1>9, <1>10 DEF LoginInv

LEMMA AnswerErrorSigns ==
  ASSUME CalledBefore, LoginInv, AnswerError
  PROVE  LoginInv'
<1>1. PICK id \in DOMAIN requests :
        requests' = requests \/ requests' = Put(requests, Failed(requests[id]))
  BY DEF AnswerError, SetRequests
<1>2. Asks(Failed(requests[id])) /\ ~WaitsFor(Failed(requests[id]))
  BY DEF CalledBefore, Requests, LoginInv, Named, IsRequest, Asks, WaitsFor, Failed
<1>3. UNCHANGED <<calls, logins, crashes, numbered>>
  BY DEF AnswerError
<1> QED BY <1>1, <1>2, <1>3, SameSettles, PutSettles, StillSigns

LEMMA CrashSigns ==
  ASSUME CalledBefore, LoginInv, Crash
  PROVE  LoginInv'
<1>1. /\ crashes' = crashes + 1 /\ UNCHANGED <<logins, numbered, requests>>
      /\ \A h \in Handlers : calls'[h] = Idle
  BY DEF Crash, outside
<1>2. \A h \in Handlers : Free(h)' /\ ~Signing(h)'
  BY <1>1 DEF Free, Idle, Signing, Signs
<1>3. Named'
  BY <1>1 DEF LoginInv, Named, Asks
<1>4. Roles' /\ OneSigner' /\ NotSigned'
  BY <1>2 DEF Roles, OneSigner, NotSigned
<1>5. \A id : Signins(id)' = Signins(id)
  BY <1>1 DEF Signins
<1>6. /\ \A id : Signins(id) \in Nat /\ Signins(id) <= 1 + crashes
      /\ crashes \in Nat
  BY DEF LoginInv, OneLogin, Signins, Named
<1>7. WaitsUnsigned'
  BY <1>1, <1>5, <1>6 DEF WaitsUnsigned
<1>8. OneLogin'
  BY <1>1, <1>6 DEF OneLogin, Signins
<1> QED BY <1>3, <1>4, <1>7, <1>8 DEF LoginInv

LEMMA LoginNext ==
  ASSUME CalledBefore, LoginInv, [Next]_vars
  PROVE  LoginInv'
<1>1. ASSUME NEW h \in Slots, StartSession(h) \/ LoginDone(h) \/ Answer(h) \/ Link(h)
      PROVE  LoginInv'
  BY <1>1, StartSessionSigns, LoginDoneSigns, AnswerSigns, LinkSigns DEF Handlers
<1>2. ASSUME NEW h \in Handlers, Continue(h)
      PROVE  LoginInv'
  BY <1>2, CheckedSigns, EngineTakesSigns, PhoneGetsSigns, ToldSigns, VerifiedSigns, SealedSigns
     DEF Continue
<1>3. CASE Edit \/ Tick \/ UNCHANGED vars
  <2>1. UNCHANGED <<calls, logins, crashes, numbered, requests>>
    BY <1>3 DEF Edit, Tick, vars, store, outside
  <2> QED BY <2>1, SameSettles, StillSigns
<1> QED BY <1>1, <1>2, <1>3, AnswerErrorSigns, AlarmRingsSigns, CrashSigns DEF Next

LEMMA LoginInit == Init => LoginInv
<1> SUFFICES ASSUME Init PROVE LoginInv
  OBVIOUS
<1>1. /\ DOMAIN requests = {} /\ DOMAIN logins = {} /\ numbered = 1 /\ crashes = 0
      /\ \A h \in Handlers : Free(h)
  BY DEF Init, Free, Idle
<1> QED BY <1>1 DEF LoginInv, Named, Roles, OneSigner, NotSigned, WaitsUnsigned, OneLogin, Signing

(* The engine signs in once for a request, and once more for each crash of *)
(* the object at most: the handler that made the request, the wait that    *)
(* runs out and the phone that fails do not both start it.                 *)
THEOREM OneLoginHolds == Spec => []OneLogin
<1>1. Init => CalledBefore /\ LoginInv
  BY InitCalledBefore, LoginInit
<1>2. CalledBefore /\ LoginInv /\ [Next]_vars => CalledBefore' /\ LoginInv'
  BY NextKeeps, LoginNext
<1>3. LoginInv => OneLogin
  BY DEF LoginInv
<1> QED BY <1>1, <1>2, <1>3, PTL DEF Spec
-----------------------------------------------------------------------------
(***************************************************************************)
(* The row, the requests and what is under way keep their shapes.  What a  *)
(* handler holds is as sound as what it was read from: a copy of a request *)
(* was made by now, and waits at most Wait from the time of a call.        *)
(***************************************************************************)
Sound(r) ==
  /\ r.made \in 1 .. now /\ r.due \in 0 .. scenario.time + Wait
  /\ r.status \in {"pending", "success", "error"}

AllSound(rs) == \A id \in DOMAIN rs : Sound(rs[id])

OnRequest == {"login", "taken", "ask", "asked", "verify"}

Shaped(k) ==
  /\ k.doc \in Row /\ k.base \in Row /\ k.at >= 1
  /\ \A r \in k.todo : Sound(r)
  /\ k.await \in OnRequest => Sound(k.req)

TypeInv ==
  /\ scenario \in Scenarios /\ now \in 1 .. scenario.time
  /\ db \in Row /\ AllSound(requests)
  /\ pending \in 0 .. numbered - 1 /\ alarmAt \in Nat
  /\ \A job \in jobs : job.id \in Nat /\ job.id < numbered
  /\ \A h \in Handlers : ~Free(h) => Shaped(calls[h])

LEMMA TypeInvTyped == LoginInv /\ TypeInv => TypeOK
<1> SUFFICES ASSUME LoginInv, TypeInv PROVE TypeOK
  OBVIOUS
<1>1. \A id \in DOMAIN requests : requests[id].id = id /\ id < numbered
  BY DEF LoginInv, Named, Asks
<1>2. ASSUME NEW h \in Handlers, ~Free(h)
      PROVE  calls[h].await \in {"check", "login", "taken", "ask", "asked", "verify", "seal"}
  BY <1>2 DEF LoginInv, Roles, Role, Signs
<1> QED BY <1>1, <1>2 DEF TypeInv, TypeOK, AllSound, Sound, Shaped

LEMMA FirstOfNat ==
  ASSUME NEW T, T \subseteq Nat, T /= {}
  PROVE  \E t \in T : \A u \in T : t <= u
<1>1. PICK t \in T : \A u \in T : ~(<<u, t>> \in OpToRel(<, Nat))
  BY WFMin, NatLessThanWellFounded
<1>2. \A u \in T : ~(u < t)
  BY <1>1 DEF OpToRel
<1>3. \A u \in T : t \in Nat /\ u \in Nat
  OBVIOUS
<1> QED BY <1>2, <1>3

(* The alarm is set for a time, if at all.                                 *)
LEMMA RescheduleTyped ==
  ASSUME CalledBefore, TypeInv, NEW rs, AllSound(rs), NEW d \in Row, Reschedule(rs, d)
  PROVE  alarmAt' \in Nat
<1> DEFINE due == WaitsDue(rs) \cup {rs[id].made + Keep : id \in DOMAIN rs}
                  \cup (IF d.ttl /\ d.vaultAt /= 0 /\ d.vault /= 0 THEN {d.vaultAt + Ttl} ELSE {})
           first == CHOOSE t \in due : \A u \in due : t <= u
<1>0. now \in Nat /\ scenario.time \in Nat /\ Wait \in Nat /\ Keep \in Nat /\ Ttl \in Nat
  BY TimesAssumption, ScenariosAssumption DEF CalledBefore, TypeInv
<1>1. WaitsDue(rs) \subseteq Nat
  BY <1>0 DEF AllSound, Sound, WaitsDue
<1>2. \A id \in DOMAIN rs : rs[id].made + Keep \in Nat
  BY <1>0 DEF AllSound, Sound
<1>3. d.vaultAt + Ttl \in Nat
  BY <1>0 DEF Row
<1>4. due \subseteq Nat
  BY <1>1, <1>2, <1>3
<1>5. alarmAt' = IF due = {} THEN 0 ELSE IF first > now THEN first ELSE now + 1
  BY DEF Reschedule
<1> HIDE DEF due
<1>6. due /= {} => first \in Nat
  BY <1>4, FirstOfNat
<1> QED BY <1>0, <1>5, <1>6

LEMMA RowKeeps ==
  ASSUME NEW d \in Row, NEW at \in Nat
  PROVE  /\ NoSession(d) \in Row /\ NewSession(d, at) \in Row
         /\ NoVault(d) \in Row /\ Rejected(d) \in Row
         /\ [d EXCEPT !.vault = Fresh(@)] \in Row
         /\ [d EXCEPT !.vault = Fresh(@), !.vaultAt = at, !.rejected = FALSE] \in Row
         /\ \A always, ttl \in BOOLEAN : [d EXCEPT !.always = always, !.ttl = ttl] \in Row
<1>0. 0 \in 0 .. 2 /\ 0 \in Nat
  OBVIOUS
<1>1. NoSession(d) \in Row
  BY <1>0 DEF NoSession, Row
<1>2. \A sealed \in 0 .. 2 : Fresh(sealed) \in 0 .. 2
  BY DEF Fresh
<1>3. Fresh(d.session) \in 0 .. 2 /\ Fresh(d.vault) \in 0 .. 2
  BY <1>2 DEF Row
<1>4. NewSession(d, at) \in Row
  BY <1>3 DEF NewSession, Row
<1>5. NoVault(d) \in Row
  BY <1>0 DEF NoVault, Row
<1>6. Rejected(d) \in Row
  BY <1>5 DEF Rejected, Row
<1>7. [d EXCEPT !.vault = Fresh(@)] \in Row
  BY <1>3 DEF Row
<1>8. [d EXCEPT !.vault = Fresh(@), !.vaultAt = at, !.rejected = FALSE] \in Row
  BY <1>3 DEF Row
<1>9. \A always, ttl \in BOOLEAN : [d EXCEPT !.always = always, !.ttl = ttl] \in Row
  BY DEF Row
<1> QED BY <1>1, <1>4, <1>5, <1>6, <1>7, <1>8, <1>9

LEMMA MergedTyped ==
  ASSUME db \in Row, NEW k, k.doc \in Row, k.base \in Row
  PROVE  Merged(k) \in Row
<1>d. PICK d : d = k.doc
  OBVIOUS
<1>b. PICK b : b = k.base
  OBVIOUS
<1>1. Merged(k) = [c \in DOMAIN db |-> IF d[c] /= b[c] THEN d[c] ELSE db[c]]
  BY <1>d, <1>b DEF Merged
<1> QED BY <1>1, <1>d, <1>b DEF Row

LEMMA PutSound ==
  ASSUME AllSound(requests), NEW r, Sound(r), NEW at
  PROVE  AllSound(Put(requests, r)) /\ AllSound(Kept(r, at))
BY DEF AllSound, Put, Kept

(* Handler h goes on as k, or ends.                                        *)
ShapedStep(h, k) ==
  /\ calls' = [calls EXCEPT ![h] = k]
  /\ k.op = "none" \/ Shaped(k)
  /\ db' \in Row /\ AllSound(requests')
  /\ pending' \in 0 .. numbered' - 1 /\ alarmAt' \in Nat
  /\ \A job \in jobs' : job.id \in Nat /\ job.id < numbered'
  /\ UNCHANGED <<now, scenario>>

LEMMA ShapedStepKeeps ==
  ASSUME CalledBefore, TypeInv, NEW h \in Handlers, NEW k, ShapedStep(h, k)
  PROVE  TypeInv'
<1>1. \A r : Sound(r)' <=> Sound(r)
  BY DEF ShapedStep, Sound
<1>2. AllSound(requests)'
  BY <1>1 DEF ShapedStep, AllSound
<1>3. calls'[h] = k /\ \A g \in Handlers : g /= h => calls'[g] = calls[g]
  BY DEF ShapedStep, CalledBefore, Underway
<1>4. ASSUME NEW g \in Handlers, ~Free(g)' PROVE Shaped(calls[g])'
  <2>c. PICK c : c = calls'[g]
    OBVIOUS
  <2>1. Shaped(c)
    BY <1>3, <1>4, <2>c DEF Free, ShapedStep, TypeInv
  <2> QED BY <1>1, <2>c, <2>1 DEF Shaped
<1> QED BY <1>2, <1>4 DEF ShapedStep, TypeInv

LEMMA IdleStep ==
  ASSUME NEW h, Ends(h), db' \in Row, AllSound(requests'),
         pending' \in 0 .. numbered' - 1, alarmAt' \in Nat,
         \A job \in jobs' : job.id \in Nat /\ job.id < numbered', UNCHANGED <<now, scenario>>
  PROVE  ShapedStep(h, Idle)
BY DEF Ends, Idle, ShapedStep

LEMMA LoadedShaped ==
  ASSUME CalledBefore, TypeInv, NEW op
  PROVE  IsCall(Loaded(op)) /\ Shaped(Loaded(op)) /\ Loaded(op).doc \in Row
<1>1. IsCall(Loaded(op))
  BY LoadedCall DEF CalledBefore
<1>2. /\ Loaded(op).doc = db /\ Loaded(op).base = db /\ Loaded(op).at = now
      /\ Loaded(op).todo = {} /\ Loaded(op).await = "none"
  BY DEF Loaded, NoCall
<1> QED BY <1>1, <1>2 DEF Shaped, TypeInv, OnRequest

LEMMA AwaitShaped ==
  ASSUME NEW k, IsCall(k), Shaped(k), NEW what, what \in OnRequest => Sound(k.req)
  PROVE  Shaped([k EXCEPT !.await = what])
BY DEF IsCall, Shaped

LEMMA DocShaped ==
  ASSUME NEW k, IsCall(k), Shaped(k), NEW d \in Row
  PROVE  IsCall([k EXCEPT !.doc = d]) /\ Shaped([k EXCEPT !.doc = d])
BY DocKeeps DEF IsCall, Shaped

LEMMA ReqShaped ==
  ASSUME NEW k, IsCall(k), Shaped(k), NEW r, Sound(r)
  PROVE  Shaped([k EXCEPT !.req = r])
BY DEF IsCall, Shaped

(* What becomes of a request in a handler's hand.                          *)
LEMMA ChangedSound ==
  ASSUME NEW r, IsRequest(r), Sound(r), scenario.time \in Nat
  PROVE  /\ Sound(Failed(r)) /\ Sound([r EXCEPT !.started = TRUE]) /\ Sound([r EXCEPT !.asked = TRUE])
         /\ Sound([r EXCEPT !.due = 0])
         /\ \A status \in {"success", "error"} : Sound([r EXCEPT !.status = status])
BY TimesAssumption DEF Sound, Failed, IsRequest
-----------------------------------------------------------------------------
LEMMA JoinOrMakeShaped ==
  ASSUME CalledBefore, LoginInv, TypeInv, NEW h \in Handlers, NEW k, IsCall(k), Shaped(k),
         JoinOrMake(h, k), UNCHANGED <<now, jobs, scenario>>
  PROVE  TypeInv'
<1>0. /\ alarmAt' \in Nat /\ numbered \in Nat \ {0} /\ now \in Nat /\ now >= 1
      /\ scenario.time \in Nat /\ Wait \in Nat
  BY TimesAssumption, ScenariosAssumption DEF JoinOrMake, TypeInv, LoginInv, Named, CalledBefore
<1>1. CASE Join(h, k)
  <2>1. db' \in Row /\ AllSound(requests') /\ pending' \in 0 .. numbered' - 1
    BY <1>1, MergedTyped DEF Join, Save, TypeInv, Shaped
  <2>2. \A job \in jobs' : job.id \in Nat /\ job.id < numbered'
    BY <1>1 DEF Join, TypeInv
  <2>3. ShapedStep(h, Idle)
    BY <1>0, <1>1, <2>1, <2>2, IdleStep DEF Join
  <2> QED BY <2>3, ShapedStepKeeps
<1>2. CASE Make(h, k)
  <2>r. PICK r : r = [NoRequest EXCEPT !.id = numbered, !.made = k.at, !.phone = k.op = "session"]
    OBVIOUS
  <2>w. PICK what : what = IF Plan(k) \in {"app", "vault_first"} THEN "login" ELSE "ask"
    OBVIOUS
  <2>k. PICK k1 : k1 = [k EXCEPT !.req = r, !.plan = Plan(k), !.await = what]
    OBVIOUS
  <2>1. /\ numbered' = numbered + 1 /\ requests' = Put(requests, r) /\ pending' = r.id
        /\ calls' = [calls EXCEPT ![h] = k1] /\ db' = db
    BY <1>2, <2>r, <2>w, <2>k DEF Make, SetRequests, Await
  <2>2. r.id = numbered /\ r.made = k.at /\ r.due = 0 /\ r.status = "pending"
    BY <2>r DEF NoRequest
  <2>3. Sound(r)
    BY <1>0, <2>2 DEF Sound, Shaped, IsCall
  <2>4. Shaped(k1)
    BY <2>3, <2>k DEF Shaped, IsCall
  <2>5. AllSound(requests')
    BY <2>1, <2>3, PutSound DEF TypeInv
  <2>6. pending' \in 0 .. numbered' - 1
    BY <1>0, <2>1, <2>2
  <2>7. \A job \in jobs' : job.id \in Nat /\ job.id < numbered'
    <3>1. \A job \in jobs : job.id \in Nat
      BY <1>0 DEF TypeInv
    <3> QED BY <1>0, <2>1, <3>1 DEF TypeInv
  <2>8. ShapedStep(h, k1)
    BY <1>0, <2>1, <2>4, <2>5, <2>6, <2>7 DEF ShapedStep, TypeInv
  <2> QED BY <2>8, ShapedStepKeeps
<1> QED BY <1>1, <1>2 DEF JoinOrMake

LEMMA StartSessionShaped ==
  ASSUME CalledBefore, LoginInv, TypeInv, NEW h \in Handlers, StartSession(h)
  PROVE  TypeInv'
<1>1. PICK op \in {"session", "app"} :
        \/ /\ Await(h, Loaded(op), "check")
           /\ UNCHANGED <<store, numbered, settled>>
        \/ JoinOrMake(h, Loaded(op))
  BY DEF StartSession
<1>2. IsCall(Loaded(op)) /\ Shaped(Loaded(op)) /\ UNCHANGED <<now, jobs, scenario>>
  BY LoadedShaped DEF StartSession, outside
<1>3. CASE Await(h, Loaded(op), "check") /\ UNCHANGED <<store, numbered, settled>>
  <2>1. Shaped([Loaded(op) EXCEPT !.await = "check"])
    BY <1>2, AwaitShaped DEF OnRequest
  <2>2. ShapedStep(h, [Loaded(op) EXCEPT !.await = "check"])
    BY <1>2, <1>3, <2>1 DEF ShapedStep, Await, store, TypeInv
  <2> QED BY <2>2, ShapedStepKeeps
<1> QED BY <1>1, <1>2, <1>3, JoinOrMakeShaped

LEMMA HandShaped ==
  ASSUME CalledBefore, LoginInv, TypeInv, NEW h \in Handlers, ~Free(h)
  PROVE  /\ IsCall(calls[h]) /\ Role(h, calls[h]) /\ Shaped(calls[h])
         /\ Asks(calls[h].req) /\ IsRequest(calls[h].req)
BY RoleOf DEF TypeInv, Hand

LEMMA CheckedShaped ==
  ASSUME CalledBefore, LoginInv, TypeInv, NEW h \in Handlers, Checked(h)
  PROVE  TypeInv'
<1>k. PICK k : k = calls[h]
  OBVIOUS
<1>k1. PICK k1 : k1 = [k EXCEPT !.doc = NoSession(@)]
  OBVIOUS
<1>1. IsCall(k) /\ Shaped(k) /\ UNCHANGED <<now, jobs, scenario>>
  BY <1>k, HandShaped DEF Checked, outside
<1>2. IsCall(k1) /\ Shaped(k1)
  <2>1. NoSession(k.doc) \in Row
    BY <1>1, RowKeeps DEF Shaped
  <2> QED BY <1>1, <1>k1, <2>1, DocShaped
<1>3. \/ Save(k) /\ Ends(h) /\ UNCHANGED <<requests, pending, alarmAt, numbered>>
      \/ JoinOrMake(h, k1)
      \/ JoinOrMake(h, k)
  BY <1>k, <1>k1 DEF Checked
<1>4. CASE Save(k) /\ Ends(h) /\ UNCHANGED <<requests, pending, alarmAt, numbered>>
  <2>1. db' \in Row
    BY <1>1, <1>4, MergedTyped DEF Save, Shaped, TypeInv
  <2>2. ShapedStep(h, Idle)
    BY <1>1, <1>4, <2>1, IdleStep DEF TypeInv
  <2> QED BY <2>2, ShapedStepKeeps
<1> QED BY <1>1, <1>2, <1>3, <1>4, JoinOrMakeShaped

LEMMA EngineTakesShaped ==
  ASSUME CalledBefore, LoginInv, TypeInv, NEW h \in Handlers, EngineTakes(h)
  PROVE  TypeInv'
<1>k. PICK k : k = calls[h]
  OBVIOUS
<1>1. /\ ~Free(h) /\ k.await = "login" /\ Await(h, k, "taken")
      /\ UNCHANGED <<now, store, scenario, numbered>>
      /\ \E n : jobs' = jobs \cup {[id |-> k.req.id, n |-> n]}
  BY <1>k DEF EngineTakes
<1>2. IsCall(k) /\ Shaped(k) /\ k.req.id \in Nat /\ k.req.id < numbered
  BY <1>1, <1>k, HandShaped DEF Asks
<1>3. Shaped([k EXCEPT !.await = "taken"])
  BY <1>1, <1>2, AwaitShaped DEF Shaped, OnRequest
<1>4. \A job \in jobs' : job.id \in Nat /\ job.id < numbered
  BY <1>1, <1>2 DEF TypeInv
<1>5. ShapedStep(h, [k EXCEPT !.await = "taken"])
  BY <1>1, <1>3, <1>4 DEF ShapedStep, Await, store, TypeInv
<1> QED BY <1>5, ShapedStepKeeps

LEMMA PhoneGetsShaped ==
  ASSUME CalledBefore, LoginInv, TypeInv, NEW h \in Handlers, PhoneGets(h)
  PROVE  TypeInv'
<1>k. PICK k : k = calls[h]
  OBVIOUS
<1>1. /\ ~Free(h) /\ k.await = "ask" /\ Await(h, k, "asked")
      /\ UNCHANGED <<now, store, jobs, scenario, numbered>>
  BY <1>k DEF PhoneGets
<1>2. IsCall(k) /\ Shaped(k)
  BY <1>1, <1>k, HandShaped
<1>3. Shaped([k EXCEPT !.await = "asked"])
  BY <1>1, <1>2, AwaitShaped DEF Shaped, OnRequest
<1>5. ShapedStep(h, [k EXCEPT !.await = "asked"])
  BY <1>1, <1>3 DEF ShapedStep, Await, store, TypeInv
<1> QED BY <1>5, ShapedStepKeeps

(* Where the request stands when an answer ends the wait.                  *)
LEMMA SessionEndsShaped ==
  ASSUME CalledBefore, TypeInv, NEW h \in Handlers, NEW k, Shaped(k), NEW r, Sound(r),
         SessionEnds(h, k, r), UNCHANGED <<now, pending, jobs, scenario, numbered>>
  PROVE  TypeInv'
<1>1. AllSound(Kept(r, k.at)) /\ requests' = Kept(r, k.at)
  BY PutSound DEF SessionEnds, SetRequests, TypeInv
<1>2. alarmAt' \in Nat
  BY <1>1, RescheduleTyped DEF SessionEnds, Shaped
<1>3. db' \in Row
  BY MergedTyped DEF SessionEnds, Save, Shaped, TypeInv
<1>4. ShapedStep(h, Idle)
  BY <1>1, <1>2, <1>3, IdleStep DEF SessionEnds, TypeInv
<1> QED BY <1>4, ShapedStepKeeps

LEMMA SavedShaped ==
  ASSUME CalledBefore, TypeInv, NEW h \in Handlers, NEW k, Shaped(k), Save(k) \/ db' = db, Ends(h),
         NEW rs, AllSound(rs), requests' = rs, alarmAt' = alarmAt,
         UNCHANGED <<now, pending, scenario, numbered>>, jobs' \subseteq jobs
  PROVE  TypeInv'
<1>1. db' \in Row
  BY MergedTyped DEF Save, Shaped, TypeInv
<1>2. ShapedStep(h, Idle)
  BY <1>1, IdleStep DEF TypeInv
<1> QED BY <1>2, ShapedStepKeeps

LEMMA GoesOnShaped ==
  ASSUME CalledBefore, TypeInv, NEW h \in Handlers, NEW k, IsCall(k), Shaped(k), NEW what,
         what \in OnRequest => Sound(k.req), Await(h, k, what),
         db' = db, NEW rs, AllSound(rs), requests' = rs, alarmAt' \in Nat,
         UNCHANGED <<now, pending, scenario, numbered>>, jobs' \subseteq jobs
  PROVE  TypeInv'
<1>1. Shaped([k EXCEPT !.await = what])
  BY AwaitShaped
<1>2. ShapedStep(h, [k EXCEPT !.await = what])
  BY <1>1 DEF ShapedStep, Await, TypeInv
<1> QED BY <1>2, ShapedStepKeeps

LEMMA BeginShaped ==
  ASSUME CalledBefore, LoginInv, TypeInv, NEW h \in Handlers, NEW ok, ~Free(h),
         calls[h].await \in OnRequest,
         BeginLogin(h, calls[h], ok) \/ BeginAsk(h, calls[h], ok),
         UNCHANGED <<now, pending, jobs, scenario, numbered>>
  PROVE  TypeInv'
<1>k. PICK k : k = calls[h]
  OBVIOUS
<1>1. /\ IsCall(k) /\ Shaped(k) /\ Sound(k.req) /\ IsRequest(k.req)
      /\ scenario.time \in Nat /\ Wait \in Nat
  BY <1>k, HandShaped, TimesAssumption, ScenariosAssumption DEF Shaped, TypeInv
<1>a. PICK r : r = [k.req EXCEPT !.asked = TRUE,
                       !.due = IF k.plan = "phone_first" THEN k.at + Wait ELSE 0]
  OBVIOUS
<1>2. /\ Sound(Failed(k.req)) /\ Sound([k.req EXCEPT !.started = TRUE])
  BY <1>1, ChangedSound
<1>3. Sound(r)
  <2>1. k.at + Wait \in 0 .. scenario.time + Wait
    BY <1>1 DEF IsCall, TypeInv
  <2>2. 0 \in 0 .. scenario.time + Wait
    BY <1>1
  <2>3. r.made = k.req.made /\ r.status = k.req.status /\ r.due \in 0 .. scenario.time + Wait
    BY <1>1, <1>a, <2>1, <2>2 DEF IsRequest
  <2> QED BY <1>1, <2>3 DEF Sound
<1>4. \/ SessionEnds(h, k, [k.req EXCEPT !.started = TRUE])
      \/ SessionEnds(h, k, Failed(k.req))
      \/ SessionEnds(h, k, r)
      \/ \E what \in {"ask", "login"} : Await(h, k, what) /\ UNCHANGED <<db, requests, alarmAt>>
  BY <1>k, <1>a DEF BeginLogin, BeginAsk
<1>5. CASE \E what \in {"ask", "login"} : Await(h, k, what) /\ UNCHANGED <<db, requests, alarmAt>>
  BY <1>1, <1>5, GoesOnShaped DEF TypeInv
<1> QED BY <1>1, <1>2, <1>3, <1>4, <1>5, SessionEndsShaped

LEMMA AppLoginShaped ==
  ASSUME CalledBefore, LoginInv, TypeInv, NEW h \in Handlers, NEW ok, ~Free(h),
         calls[h].await \in OnRequest, AppLogin(h, calls[h], ok),
         UNCHANGED <<now, pending, jobs, scenario, numbered>>
  PROVE  TypeInv'
<1>k. PICK k : k = calls[h]
  OBVIOUS
<1>1. /\ IsCall(k) /\ Shaped(k) /\ Sound(k.req) /\ IsRequest(k.req) /\ scenario.time \in Nat
  BY <1>k, HandShaped, ScenariosAssumption DEF Shaped, TypeInv
<1>2. /\ AllSound(Kept([k.req EXCEPT !.started = TRUE], k.at))
      /\ AllSound(Put(requests, Failed(k.req)))
  BY <1>1, ChangedSound, PutSound DEF TypeInv
<1>3. PICK rs : AllSound(rs) /\ AppEnds(h, k, rs)
  BY <1>2, <1>k DEF AppLogin
<1> QED BY <1>1, <1>3, SavedShaped DEF AppEnds, SetRequests

LEMMA AlarmEndsShaped ==
  ASSUME CalledBefore, TypeInv, Alarm \in Handlers, NEW k, IsCall(k), Shaped(k),
         NEW rs, AllSound(rs), AlarmEnds(k, rs), UNCHANGED <<now, pending, jobs, scenario, numbered>>
  PROVE  TypeInv'
<1>x. PICK x : x = IF k.doc.vault /= 0 /\ ~UsableVault(k.doc, k.at)
                   THEN [k EXCEPT !.doc = NoVault(@)] ELSE k
  OBVIOUS
<1>1. Shaped(x)
  <2>1. NoVault(k.doc) \in Row
    BY RowKeeps DEF Shaped
  <2> QED BY <1>x, <2>1, DocShaped
<1>2. Save(x) /\ requests' = rs /\ Reschedule(rs, x.doc) /\ Ends(Alarm)
  BY <1>x DEF AlarmEnds, SetRequests
<1>3. db' \in Row /\ alarmAt' \in Nat
  BY <1>1, <1>2, MergedTyped, RescheduleTyped DEF Save, Shaped, TypeInv
<1>4. ShapedStep(Alarm, Idle)
  BY <1>2, <1>3, IdleStep DEF TypeInv
<1> QED BY <1>4, ShapedStepKeeps

LEMMA AlarmLoginShaped ==
  ASSUME CalledBefore, LoginInv, TypeInv, NEW h \in Handlers, NEW ok, ~Free(h),
         calls[h].await \in OnRequest, AlarmLogin(calls[h], ok),
         UNCHANGED <<now, pending, jobs, scenario, numbered>>
  PROVE  TypeInv'
<1>k. PICK k : k = calls[h]
  OBVIOUS
<1>1. /\ IsCall(k) /\ Shaped(k) /\ Sound(k.req) /\ IsRequest(k.req) /\ scenario.time \in Nat
      /\ Alarm \in Handlers
  BY <1>k, HandShaped, ScenariosAssumption DEF Shaped, TypeInv, Handlers
<1>r. PICK r : r = IF ok THEN [k.req EXCEPT !.started = TRUE] ELSE [k.req EXCEPT !.due = 0]
  OBVIOUS
<1>2. AllSound(Put(requests, r))
  BY <1>1, <1>r, ChangedSound, PutSound DEF TypeInv
<1>3. \/ AlarmEnds(k, Put(requests, r))
      \/ \E next \in k.todo :
           /\ Await(Alarm, [k EXCEPT !.req = next, !.todo = @ \ {next}], "login")
           /\ requests' = Put(requests, r) /\ UNCHANGED <<db, alarmAt>>
  BY <1>k, <1>r DEF AlarmLogin, SetRequests
<1>4. ASSUME NEW next \in k.todo,
             Await(Alarm, [k EXCEPT !.req = next, !.todo = @ \ {next}], "login"),
             requests' = Put(requests, r), UNCHANGED <<db, alarmAt>>
      PROVE  TypeInv'
  <2>x. PICK x : x = [k EXCEPT !.req = next, !.todo = @ \ {next}]
    OBVIOUS
  <2>1. IsCall(x) /\ Shaped(x) /\ Sound(x.req)
    BY <1>1, <2>x DEF IsCall, Shaped
  <2> QED BY <1>1, <1>2, <1>4, <2>x, <2>1, GoesOnShaped DEF TypeInv
<1> QED BY <1>1, <1>2, <1>3, <1>4, AlarmEndsShaped

LEMMA DoneEndsShaped ==
  ASSUME CalledBefore, TypeInv, NEW h \in Handlers, NEW k, Shaped(k),
         k.req.id = 0 \/ Sound(k.req), DoneEnds(h, k),
         UNCHANGED <<now, pending, scenario, numbered>>, jobs' \subseteq jobs
  PROVE  TypeInv'
<1>1. PICK rs : AllSound(rs) /\ requests' = rs
  BY PutSound DEF DoneEnds, SetRequests, TypeInv
<1> QED BY <1>1, SavedShaped DEF DoneEnds

LEMMA DoneAskShaped ==
  ASSUME CalledBefore, LoginInv, TypeInv, NEW h \in Handlers, NEW ok, ~Free(h),
         calls[h].await \in OnRequest, DoneAsk(h, calls[h], ok),
         UNCHANGED <<now, pending, jobs, scenario, numbered>>
  PROVE  TypeInv'
<1>k. PICK k : k = calls[h]
  OBVIOUS
<1>1. /\ IsCall(k) /\ Shaped(k) /\ Sound(k.req) /\ IsRequest(k.req) /\ scenario.time \in Nat
  BY <1>k, HandShaped, ScenariosAssumption DEF Shaped, TypeInv
<1>r. PICK r : r = IF ok THEN [k.req EXCEPT !.asked = TRUE] ELSE Failed(k.req)
  OBVIOUS
<1>x. PICK x : x = [k EXCEPT !.req = r]
  OBVIOUS
<1>2. Sound(r)
  BY <1>1, <1>r, ChangedSound
<1>3. Shaped(x) /\ x.req = r
  BY <1>1, <1>2, <1>x, ReqShaped DEF IsCall
<1>4. DoneEnds(h, x)
  BY <1>k, <1>r, <1>x DEF DoneAsk
<1> QED BY <1>2, <1>3, <1>4, DoneEndsShaped

LEMMA ToldShaped ==
  ASSUME CalledBefore, LoginInv, TypeInv, NEW h \in Handlers, NEW ok \in BOOLEAN, Told(h, ok)
  PROVE  TypeInv'
<1>1. /\ ~Free(h) /\ calls[h].await \in OnRequest
      /\ UNCHANGED <<now, pending, jobs, scenario, numbered>>
  BY DEF Told, outside, OnRequest
<1>2. \/ BeginLogin(h, calls[h], ok) \/ AppLogin(h, calls[h], ok) \/ AlarmLogin(calls[h], ok)
      \/ BeginAsk(h, calls[h], ok) \/ DoneAsk(h, calls[h], ok)
  BY DEF Told
<1> QED BY <1>1, <1>2, BeginShaped, AppLoginShaped, AlarmLoginShaped, DoneAskShaped
-----------------------------------------------------------------------------
LEMMA LoginFailsShaped ==
  ASSUME CalledBefore, TypeInv, NEW h \in Handlers, NEW k, IsCall(k), Shaped(k),
         k.req.id = 0 \/ Sound(k.req), LoginFails(h, k),
         UNCHANGED <<now, pending, scenario, numbered>>, jobs' \subseteq jobs
  PROVE  TypeInv'
<1>x. PICK x : x = [k EXCEPT !.req = Failed(@)]
  OBVIOUS
<1>1. \/ k.req.id /= 0 /\ Await(h, k, "ask") /\ UNCHANGED <<db, requests, alarmAt>>
      \/ k.req.id /= 0 /\ DoneEnds(h, x)
      \/ DoneEnds(h, k)
  BY <1>x DEF LoginFails
<1>2. CASE k.req.id /= 0 /\ Await(h, k, "ask") /\ UNCHANGED <<db, requests, alarmAt>>
  BY <1>2, GoesOnShaped DEF TypeInv
<1>3. CASE k.req.id /= 0 /\ DoneEnds(h, x)
  <2>1. IsRequest(k.req) /\ scenario.time \in Nat
    BY ScenariosAssumption DEF IsCall, TypeInv
  <2>2. Sound(Failed(k.req))
    BY <1>3, <2>1, ChangedSound
  <2>3. Shaped(x) /\ x.req = Failed(k.req)
    BY <1>x, <2>2, ReqShaped DEF IsCall
  <2> QED BY <1>3, <2>2, <2>3, DoneEndsShaped
<1>4. CASE DoneEnds(h, k)
  BY <1>4, DoneEndsShaped
<1> QED BY <1>1, <1>2, <1>3, <1>4

LEMMA LoginDoneShaped ==
  ASSUME CalledBefore, LoginInv, TypeInv, NEW h \in Handlers, LoginDone(h)
  PROVE  TypeInv'
<1>1. PICK job \in jobs :
        LET r == IF job.id \in DOMAIN requests THEN requests[job.id] ELSE NoRequest
            k == [Loaded("done") EXCEPT !.req = r]
        IN \/ DoneEnds(h, [k EXCEPT !.doc = NewSession(@, now),
                             !.req = IF Pending(r, now) THEN [r EXCEPT !.status = "success"] ELSE r])
           \/ LoginFails(h, [k EXCEPT !.doc = Rejected(@)])
           \/ LoginFails(h, [k EXCEPT !.doc = NoVault(@)])
           \/ LoginFails(h, k)
           \/ LoginFails(h, [k EXCEPT !.doc.vault = Fresh(@)])
  BY DEF LoginDone
<1>r. PICK r : r = IF job.id \in DOMAIN requests THEN requests[job.id] ELSE NoRequest
  OBVIOUS
<1>k. PICK k : k = [Loaded("done") EXCEPT !.req = r]
  OBVIOUS
<1>q. PICK q : q = IF Pending(r, now) THEN [r EXCEPT !.status = "success"] ELSE r
  OBVIOUS
<1>d. PICK d : d = [k EXCEPT !.doc = NewSession(@, now), !.req = q]
  OBVIOUS
<1>2. UNCHANGED <<now, pending, scenario, numbered>> /\ jobs' \subseteq jobs
  BY DEF LoginDone
<1>3. IsRequest(r) /\ (r.id = 0 \/ Sound(r))
  <2>1. CASE job.id \in DOMAIN requests
    BY <1>r, <2>1 DEF CalledBefore, Requests, TypeInv, AllSound
  <2>2. CASE job.id \notin DOMAIN requests
    BY <1>r, <2>2 DEF IsRequest, NoRequest
  <2> QED BY <2>1, <2>2
<1>4. IsCall(k) /\ Shaped(k) /\ k.req = r /\ k.doc \in Row /\ k.await = "none"
  <2>1. IsCall(Loaded("done")) /\ Shaped(Loaded("done")) /\ Loaded("done").await = "none"
    BY LoadedShaped DEF Loaded, NoCall
  <2> QED BY <1>3, <1>k, <2>1, ReqKeeps DEF IsCall, Shaped, OnRequest
<1>5. IsRequest(q) /\ (q.id = 0 \/ Sound(q))
  <2>1. scenario.time \in Nat
    BY ScenariosAssumption DEF TypeInv
  <2> QED BY <1>3, <1>q, <2>1, ChangedSound DEF IsRequest
<1>6. NewSession(k.doc, now) \in Row /\ Rejected(k.doc) \in Row /\ NoVault(k.doc) \in Row
      /\ [k.doc EXCEPT !.vault = Fresh(@)] \in Row
  BY <1>4, RowKeeps DEF CalledBefore
<1>7. Shaped(d) /\ d.req = q
  BY <1>4, <1>6, <1>d DEF IsCall, Shaped, OnRequest
<1>8. CASE DoneEnds(h, d)
  BY <1>2, <1>5, <1>7, <1>8, DoneEndsShaped
<1>9. ASSUME NEW e \in Row, LoginFails(h, [k EXCEPT !.doc = e]) PROVE TypeInv'
  <2>x. PICK x : x = [k EXCEPT !.doc = e]
    OBVIOUS
  <2>1. IsCall(x) /\ Shaped(x) /\ x.req = r
    BY <1>4, <2>x, DocShaped DEF IsCall
  <2> QED BY <1>2, <1>3, <1>9, <2>1, <2>x, LoginFailsShaped
<1>10. CASE LoginFails(h, k)
  BY <1>2, <1>3, <1>4, <1>10, LoginFailsShaped
<1>11. \/ DoneEnds(h, d) \/ LoginFails(h, k)
       \/ LoginFails(h, [k EXCEPT !.doc = Rejected(@)])
       \/ LoginFails(h, [k EXCEPT !.doc = NoVault(@)])
       \/ LoginFails(h, [k EXCEPT !.doc.vault = Fresh(@)])
  BY <1>1, <1>r, <1>k, <1>q, <1>d
<1>12. CASE LoginFails(h, [k EXCEPT !.doc.vault = Fresh(@)])
  BY <1>6, <1>9, <1>12
<1> QED BY <1>6, <1>8, <1>9, <1>10, <1>11, <1>12

LEMMA AnswerErrorShaped ==
  ASSUME CalledBefore, LoginInv, TypeInv, AnswerError
  PROVE  TypeInv'
<1>1. PICK id \in DOMAIN requests :
        requests' = requests \/ requests' = Put(requests, Failed(requests[id]))
  BY DEF AnswerError, SetRequests
<1>2. IsRequest(requests[id]) /\ Sound(requests[id]) /\ scenario.time \in Nat
  BY ScenariosAssumption DEF CalledBefore, Requests, TypeInv, AllSound
<1>3. AllSound(requests')
  BY <1>1, <1>2, ChangedSound, PutSound DEF TypeInv
<1>4. UNCHANGED <<now, db, pending, alarmAt, calls, jobs, scenario, numbered>>
  BY DEF AnswerError
<1> QED BY <1>3, <1>4 DEF TypeInv, AllSound, Sound, Shaped, Free

LEMMA AnswerShaped ==
  ASSUME CalledBefore, LoginInv, TypeInv, NEW h \in Handlers, Answer(h)
  PROVE  TypeInv'
<1>1. PICK id \in DOMAIN requests :
        Await(h, [Loaded("answer") EXCEPT !.req = requests[id]], "verify")
  BY DEF Answer
<1>k. PICK k : k = [Loaded("answer") EXCEPT !.req = requests[id]]
  OBVIOUS
<1>2. IsRequest(requests[id]) /\ Sound(requests[id])
  BY DEF CalledBefore, Requests, TypeInv, AllSound
<1>3. IsCall(k) /\ Shaped(k) /\ Sound(k.req)
  BY <1>2, <1>k, LoadedShaped, ReqShaped, ReqKeeps DEF IsCall
<1> QED BY <1>1, <1>3, <1>k, GoesOnShaped DEF Answer, store, TypeInv

LEMMA VerifiedShaped ==
  ASSUME CalledBefore, LoginInv, TypeInv, NEW h \in Handlers, Verified(h)
  PROVE  TypeInv'
<1>k. PICK k : k = calls[h]
  OBVIOUS
<1>x. PICK x : x = [k EXCEPT !.doc = NewSession(@, k.at)]
  OBVIOUS
<1>1. /\ ~Free(h) /\ k.await = "verify"
      /\ UNCHANGED <<now, pending, alarmAt, jobs, scenario, numbered>>
  BY <1>k DEF Verified
<1>2. /\ IsCall(k) /\ Shaped(k) /\ Sound(k.req) /\ IsRequest(k.req) /\ scenario.time \in Nat
  BY <1>1, <1>k, HandShaped, ScenariosAssumption DEF Shaped, OnRequest, TypeInv
<1>3. IsCall(x) /\ Shaped(x)
  <2>1. NewSession(k.doc, k.at) \in Row
    BY <1>2, RowKeeps DEF Shaped, IsCall
  <2> QED BY <1>2, <1>x, <2>1, DocShaped
<1>4. \/ requests' = requests
      \/ \E status \in {"success", "error"} : requests' = Put(requests, [k.req EXCEPT !.status = status])
  BY <1>k DEF Verified, SetRequests
<1>5. \A status \in {"success", "error"} : AllSound(Put(requests, [k.req EXCEPT !.status = status]))
  BY <1>2, ChangedSound, PutSound DEF TypeInv
<1>6. PICK rs : AllSound(rs) /\ requests' = rs
  BY <1>4, <1>5 DEF TypeInv
<1>7. \/ Save(x) /\ Ends(h)
      \/ Await(h, x, "seal") /\ db' = db
      \/ Ends(h) /\ db' = db
  BY <1>k, <1>x DEF Verified
<1>8. CASE Await(h, x, "seal") /\ db' = db
  BY <1>1, <1>3, <1>6, <1>8, GoesOnShaped DEF OnRequest, TypeInv
<1>9. CASE Save(x) /\ Ends(h)
  BY <1>1, <1>3, <1>6, <1>9, SavedShaped
<1>10. CASE Ends(h) /\ db' = db
  BY <1>1, <1>3, <1>6, <1>10, SavedShaped
<1> QED BY <1>7, <1>8, <1>9, <1>10

LEMMA SealedShaped ==
  ASSUME CalledBefore, LoginInv, TypeInv, NEW h \in Handlers, Sealed(h)
  PROVE  TypeInv'
<1>k. PICK k : k = calls[h]
  OBVIOUS
<1>x. PICK x : x = [k EXCEPT !.doc.vault = Fresh(@), !.doc.vaultAt = k.at, !.doc.rejected = FALSE]
  OBVIOUS
<1>d. PICK d : d = [k.doc EXCEPT !.vault = Fresh(@), !.vaultAt = k.at, !.rejected = FALSE]
  OBVIOUS
<1>1. /\ ~Free(h) /\ Ends(h) /\ (Save(x) \/ Save(k))
      /\ UNCHANGED <<now, requests, pending, alarmAt, jobs, scenario, numbered>>
  BY <1>k, <1>x DEF Sealed, outside
<1>2. IsCall(k) /\ Shaped(k)
  BY <1>1, <1>k, HandShaped
<1>3. d \in Row
  BY <1>2, <1>d, RowKeeps DEF Shaped, IsCall
<1>4. x = [k EXCEPT !.doc = d]
  BY <1>2, <1>x, <1>d, <1>3 DEF IsCall, Shaped, Row
<1>5. Shaped(x)
  BY <1>2, <1>3, <1>4, DocShaped
<1>6. CASE Save(x)
  BY <1>1, <1>5, <1>6, SavedShaped DEF TypeInv
<1>7. CASE Save(k)
  BY <1>1, <1>2, <1>7, SavedShaped DEF TypeInv
<1> QED BY <1>1, <1>6, <1>7

LEMMA LinkShaped ==
  ASSUME CalledBefore, LoginInv, TypeInv, NEW h \in Handlers, Link(h)
  PROVE  TypeInv'
<1>k. PICK k : k = [Loaded("link") EXCEPT !.doc = NewSession(@, now)]
  OBVIOUS
<1>1. Await(h, k, "seal") /\ UNCHANGED <<now, store, jobs, scenario, numbered>>
  BY <1>k DEF Link, outside
<1>2. NewSession(Loaded("link").doc, now) \in Row
  BY LoadedShaped, RowKeeps DEF CalledBefore
<1>3. IsCall(k) /\ Shaped(k)
  BY <1>k, <1>2, LoadedShaped, DocShaped
<1> QED BY <1>1, <1>3, GoesOnShaped DEF store, OnRequest, TypeInv

LEMMA AlarmRingsShaped ==
  ASSUME CalledBefore, LoginInv, TypeInv, AlarmRings
  PROVE  TypeInv'
<1>k. PICK k : k = Loaded("alarm")
  OBVIOUS
<1>young. PICK young :
     young = [id \in {id \in DOMAIN requests : now < requests[id].made + Keep} |-> requests[id]]
  OBVIOUS
<1>due. PICK due : due = DueNow(young, now)
  OBVIOUS
<1>quiet. PICK quiet :
     quiet = [id \in DOMAIN young |->
                IF young[id] \in due THEN [young[id] EXCEPT !.due = 0] ELSE young[id]]
  OBVIOUS
<1>1. /\ Alarm \in Handlers /\ UNCHANGED <<now, pending, jobs, scenario, numbered>>
      /\ IsCall(k) /\ Shaped(k) /\ scenario.time \in Nat
  BY <1>k, LoadedShaped, ScenariosAssumption DEF AlarmRings, outside, Handlers, TypeInv
<1>2. \/ AlarmEnds(k, quiet)
      \/ /\ \E r \in due : Await(Alarm, [k EXCEPT !.req = r, !.todo = due \ {r}], "login")
         /\ alarmAt' = 0 /\ requests' = young /\ db' = db
  BY <1>k, <1>young, <1>due, <1>quiet DEF AlarmRings, SetRequests
<1>3. \A id \in DOMAIN young : Sound(young[id]) /\ IsRequest(young[id])
  BY <1>young DEF CalledBefore, Requests, TypeInv, AllSound
<1>4. \A r \in due : Sound(r) /\ IsRequest(r)
  BY <1>3, <1>due DEF DueNow
<1>5. AllSound(quiet)
  BY <1>1, <1>3, <1>quiet, ChangedSound DEF AllSound
<1>6. ASSUME NEW r \in due, Await(Alarm, [k EXCEPT !.req = r, !.todo = due \ {r}], "login"),
             alarmAt' = 0, requests' = young, db' = db
      PROVE  TypeInv'
  <2>x. PICK x : x = [k EXCEPT !.req = r, !.todo = due \ {r}]
    OBVIOUS
  <2>1. IsCall(x) /\ Shaped(x) /\ Sound(x.req)
    BY <1>1, <1>4, <1>6, <2>x DEF IsCall, Shaped
  <2>2. AllSound(young) /\ alarmAt' \in Nat
    BY <1>3, <1>6 DEF AllSound
  <2> QED BY <1>1, <1>6, <2>x, <2>1, <2>2, GoesOnShaped
<1>7. CASE AlarmEnds(k, quiet)
  BY <1>1, <1>5, <1>7, AlarmEndsShaped
<1> QED BY <1>2, <1>6, <1>7

LEMMA WorldShaped ==
  ASSUME CalledBefore, LoginInv, TypeInv, Edit \/ Crash \/ Tick \/ UNCHANGED vars
  PROVE  TypeInv'
<1>0. now \in Nat /\ scenario.time \in Nat /\ Wait \in Nat
  BY TimesAssumption, ScenariosAssumption DEF CalledBefore, TypeInv
<1>1. CASE Edit
  <2>1. db' \in Row
    BY <1>1, RowKeeps DEF Edit, TypeInv
  <2>2. UNCHANGED <<now, requests, pending, alarmAt, calls, jobs, scenario, numbered>>
    BY <1>1 DEF Edit, outside
  <2> QED BY <2>1, <2>2 DEF TypeInv, AllSound, Sound, Shaped, Free
<1>2. CASE Crash
  <2>1. /\ UNCHANGED <<now, db, requests, pending, jobs, scenario, numbered>>
        /\ alarmAt' \in Nat /\ \A h \in Handlers : calls'[h] = Idle
    BY <1>0, <1>2 DEF Crash, outside, TypeInv
  <2>2. \A h \in Handlers : Free(h)'
    BY <2>1 DEF Free, Idle
  <2> QED BY <2>1, <2>2 DEF TypeInv, AllSound, Sound
<1>3. CASE Tick
  <2>1. /\ now < scenario.time /\ now' = now + 1
        /\ UNCHANGED <<db, requests, pending, alarmAt, calls, jobs, scenario, numbered>>
    BY <1>3 DEF Tick, store, outside
  <2>2. \A r : Sound(r) => Sound(r)'
    BY <1>0, <2>1 DEF Sound
  <2>3. now' \in 1 .. scenario.time
    BY <1>0, <2>1 DEF TypeInv
  <2>4. AllSound(requests)'
    BY <2>1, <2>2 DEF TypeInv, AllSound
  <2>5. ASSUME NEW h \in Handlers, ~Free(h)' PROVE Shaped(calls[h])'
    <3>1. calls'[h] = calls[h] /\ Shaped(calls[h])
      BY <2>1, <2>5 DEF Free, TypeInv
    <3> QED BY <2>1, <2>2, <3>1 DEF Shaped
  <2> QED BY <2>1, <2>3, <2>4, <2>5 DEF TypeInv
<1>4. CASE UNCHANGED vars
  BY <1>4 DEF vars, store, outside, TypeInv, AllSound, Sound, Shaped, Free
<1> QED BY <1>1, <1>2, <1>3, <1>4

LEMMA TypeNext ==
  ASSUME CalledBefore, LoginInv, TypeInv, [Next]_vars
  PROVE  TypeInv'
<1>1. ASSUME NEW h \in Slots, StartSession(h) \/ LoginDone(h) \/ Answer(h) \/ Link(h)
      PROVE  TypeInv'
  BY <1>1, StartSessionShaped, LoginDoneShaped, AnswerShaped, LinkShaped DEF Handlers
<1>2. ASSUME NEW h \in Handlers, Continue(h)
      PROVE  TypeInv'
  BY <1>2, CheckedShaped, EngineTakesShaped, PhoneGetsShaped, ToldShaped, VerifiedShaped,
     SealedShaped DEF Continue
<1> QED BY <1>1, <1>2, AnswerErrorShaped, AlarmRingsShaped, WorldShaped DEF Next

LEMMA TypeInit == Init => TypeInv
<1> SUFFICES ASSUME Init PROVE TypeInv
  OBVIOUS
<1>1. \A h \in Handlers : Free(h)
  BY DEF Init, Free, Idle
<1>2. scenario.time \in Nat \ {0} /\ scenario.opening \in Row /\ scenario.alarm \in Nat
  BY ScenariosAssumption DEF Init
<1> QED BY <1>1, <1>2 DEF Init, TypeInv, AllSound

(* Whatever comes in whatever order, every request keeps its number, its   *)
(* time and a wait within bounds, the row keeps the columns of             *)
(* account-state.ts, although each handler writes back only what it        *)
(* changed of an older copy, and the alarm is set for a time or not at all.*)
THEOREM AccountTyped == Spec => []TypeOK
<1>1. Init => CalledBefore /\ LoginInv /\ TypeInv
  BY InitCalledBefore, LoginInit, TypeInit
<1>2. CalledBefore /\ LoginInv /\ TypeInv /\ [Next]_vars => CalledBefore' /\ LoginInv' /\ TypeInv'
  BY NextKeeps, LoginNext, TypeNext
<1> QED BY <1>1, <1>2, TypeInvTyped, PTL DEF Spec
-----------------------------------------------------------------------------
(***************************************************************************)
(* While the object does not crash, no pending request is forgotten.       *)
(*                                                                         *)
(* A request is over when it has had its end, was dropped or is too old.   *)
(* One that is not over and waits for no phone is attended by a handler    *)
(* that signs in, or was taken: a phone was asked, the engine works on it, *)
(* or a handler falls back to the phone.  Each of these ends in another of *)
(* them or in the end of the request, whatever stale copies are written    *)
(* back meanwhile: a copy agrees with its request on when it was made.     *)
(***************************************************************************)
Held(r) == \E g \in Handlers : ~Free(g) /\ r \in Hand(calls[g])
Copy(r) == Held(r) \/ \E id \in DOMAIN requests : r = requests[id]

Over(id) == id \in settled \/ id \notin DOMAIN requests \/ now >= requests[id].made + Timeout
Prompted(id) ==
  \/ Over(id) \/ id \in prompts
  \/ \E g \in Handlers : ~Free(g) /\ calls[g].await = "verify" /\ calls[g].req.id = id

FallsBack(k) == k.op = "done" /\ k.await \in {"ask", "asked"}
Taken(id) ==
  \/ Prompted(id) \/ \E job \in jobs : job.id = id
  \/ \E g \in Handlers : ~Free(g) /\ FallsBack(calls[g]) /\ calls[g].req.id = id

SignsFor(id) == \E g \in Handlers : Signing(g) /\ \E r \in Hand(calls[g]) : r.id = id
Timely(due) == alarmAt /= 0 /\ (alarmAt <= due \/ alarmAt <= now + 1)

(* Copies of a request, and what became of it.                             *)
OneMade == \A q, r : Copy(q) /\ Copy(r) /\ q.id = r.id /\ q.id /= 0 => q.made = r.made
HeldListed ==
  \A r : Held(r) /\ r.id /= 0 => r.id \in DOMAIN requests \/ now >= r.made + Timeout
EndsSettle == \A r : Copy(r) /\ r.status /= "pending" => r.id \in settled
IdsGiven == (\A id \in settled : id \in Nat /\ id < numbered) /\ 0 \notin DOMAIN requests
OnlyPending == \A id \in DOMAIN requests : ~Over(id) => id = pending
AskedPrompted == \A r : Copy(r) /\ r.asked => Prompted(r.id)

(* What a handler awaits is under way, and the engine heard of what it     *)
(* answers.                                                                *)
Awaits(k) ==
  /\ k.await \in OnRequest => k.req.id /= 0
  /\ \A r \in k.todo : r.id /= 0
  /\ k.await = "asked" => Prompted(k.req.id)
  /\ k.await = "taken" => Taken(k.req.id)
  /\ k.op = "alarm" => \A r \in Hand(k) : r.asked
  /\ FallsBack(k) => Signins(k.req.id) >= 1
HandlersAwait == \A g \in Handlers : ~Free(g) => Awaits(calls[g])
JobsKnown == \A job \in jobs : Signins(job.id) >= 1

(* A request that waits had no end yet; one that had, and is pending again *)
(* in the hand of its maker, was signed in for.                            *)
MakesRequest(k) == Signs(k) /\ k.op \in {"session", "app"}
WaitsOpen == \A id : Waiting(requests, id) => id \notin settled
ReopensSigned ==
  \A g \in Handlers :
    LET id == calls[g].req.id
    IN ~Free(g) /\ MakesRequest(calls[g]) /\ id \in settled
       /\ id \in DOMAIN requests /\ requests[id].status = "pending"
         => Signins(id) >= 1

Followed ==
  \A id \in DOMAIN requests : ~Over(id) =>
    IF Waiting(requests, id) THEN Timely(requests[id].due) \/ AlarmHas(id)
    ELSE Taken(id) \/ SignsFor(id)

Attends ==
  /\ OneMade /\ HeldListed /\ EndsSettle /\ IdsGiven /\ OnlyPending /\ AskedPrompted
  /\ HandlersAwait /\ JobsKnown /\ WaitsOpen /\ ReopensSigned /\ Followed

LEMMA AttendsAll == CalledBefore /\ Attends => NobodyForgets
<1> SUFFICES ASSUME CalledBefore, Attends, NEW id \in DOMAIN requests, id \notin settled,
                    Pending(requests[id], now)
             PROVE  Attended(id)
  BY DEF NobodyForgets
<1>1. ~Over(id) /\ requests[id].status = "pending"
  <2>1. ~(now >= requests[id].made + Timeout)
    BY TimesAssumption DEF Pending, CalledBefore, Requests, IsRequest
  <2> QED BY <2>1 DEF Over, Pending
<1>2. ASSUME NEW g \in Handlers, ~Free(g), NEW r \in Hand(calls[g]), r.id = id PROVE InHand(id)
  BY <1>2 DEF InHand, Hand
<1>3. CASE Waiting(requests, id)
  <2>1. requests[id].due /= 0 /\ ~requests[id].started
    BY <1>3 DEF Waiting
  <2>2. CASE Timely(requests[id].due)
    BY <2>1, <2>2 DEF Attended, Timely
  <2>3. CASE AlarmHas(id)
    BY <1>2, <2>3 DEF Attended, AlarmHas, Signing
  <2> QED BY <1>1, <1>3, <2>2, <2>3 DEF Attends, Followed
<1>4. CASE ~Waiting(requests, id)
  <2>1. ~(requests[id].due /= 0 /\ ~requests[id].started)
    BY <1>1, <1>4 DEF Waiting
  <2>2. CASE id \in prompts
    BY <2>1, <2>2 DEF Attended
  <2>3. CASE \E g \in Handlers : ~Free(g) /\ calls[g].req.id = id
    BY <1>2, <2>3 DEF Attended, Hand
  <2>4. CASE \E job \in jobs : job.id = id
    BY <2>4 DEF Attended
  <2>5. CASE SignsFor(id)
    BY <1>2, <2>5 DEF Attended, SignsFor, Signing
  <2>6. Taken(id) \/ SignsFor(id)
    BY <1>1, <1>4 DEF Attends, Followed
  <2> QED BY <1>1, <2>2, <2>3, <2>4, <2>5, <2>6 DEF Taken, Prompted
<1> QED BY <1>3, <1>4

(* What r was copied from, or changed from.                                *)
Stem(r) == \E q : Copy(q) /\ q.id = r.id /\ q.made = r.made /\ (r.asked => q.asked \/ Prompted(r.id))

(* A step of handler h, which goes on as k, or of nobody; first what       *)
(* becomes of the table, the prompts and the sign-ins.                     *)
RowsGo ==
  /\ UNCHANGED <<now, numbered, pending, crashes>>
  /\ settled' = settled \cup {id \in DOMAIN requests' : requests'[id].status /= "pending"}
  /\ \A id \in DOMAIN requests' : id /= 0 /\ requests'[id].id = id /\ Stem(requests'[id])
  /\ \A id \in DOMAIN requests \ DOMAIN requests' : now >= requests[id].made + Timeout

Moves(h, k) ==
  /\ h \in Handlers /\ calls'[h] = k /\ RowsGo
  /\ \A g \in Handlers : g /= h => calls'[g] = calls[g]

PromptsGo(h) ==
  /\ \A id \in prompts \ prompts' : Prompted(id)'
  /\ ~Free(h) /\ calls[h].await = "verify" =>
       \A id : id = calls[h].req.id => Prompted(id)'

JobsGo(h) ==
  /\ \A job \in jobs \ jobs' : Taken(job.id)'
  /\ ~Free(h) /\ FallsBack(calls[h]) => \A id : id = calls[h].req.id => Taken(id)'

(* Then what k is and has in hand,                                         *)
HandGoes(h, k) ==
  k.op /= "none" =>
    /\ \A r \in Hand(k) : /\ r.id = 0 \/ Stem(r)
                          /\ r.status /= "pending" => r.id \in settled'
    /\ Awaits(k)'
    /\ MakesRequest(k) => ~Free(h) /\ MakesRequest(calls[h]) /\ k.req = calls[h].req

SigninsGo ==
  /\ \A id : Signins(id) >= 1 => Signins(id)' >= 1
  /\ \A job \in jobs' : Signins(job.id)' >= 1

(* what is written over a request that had its end,                        *)
Reopens(h) ==
  \A id \in DOMAIN requests' : requests'[id].status = "pending" /\ id \in settled =>
    \/ id \in DOMAIN requests /\ requests[id].status = "pending"
    \/ Signins(id)' >= 1
    \/ Signing(h) /\ calls[h].op = "alarm" /\ \E r \in Hand(calls[h]) : r.id = id

(* and who attends to the requests in the end.                             *)
TimelyNext(due) == alarmAt' /= 0 /\ (alarmAt' <= due \/ alarmAt' <= now' + 1)
HasAlarm(h, k, id) == h = Alarm /\ Signs(k) /\ k.op = "alarm" /\ \E r \in Hand(k) : r.id = id

WaitersGo(h, k) ==
  \A id : Waiting(requests', id) =>
    /\ id \notin settled
    /\ \/ Over(id)' \/ TimelyNext(requests'[id].due) \/ HasAlarm(h, k, id)
       \/ /\ Waiting(requests, id) /\ requests'[id].due = requests[id].due
          /\ UNCHANGED alarmAt /\ (AlarmHas(id) => h /= Alarm)

Leaves(h, k) ==
  Signing(h) => \A r \in Hand(calls[h]) :
    \/ Taken(r.id)' \/ Waiting(requests', r.id)
    \/ Signs(k) /\ \E q \in Hand(k) : q.id = r.id

LEMMA StemOf ==
  ASSUME NEW r, Copy(r)
  PROVE  Stem(r)
BY DEF Stem

LEMMA StemLike ==
  ASSUME NEW r, Stem(r), NEW s, s.id = r.id, s.made = r.made, s.asked => r.asked \/ Prompted(r.id)
  PROVE  Stem(s)
BY DEF Stem

(* A copy's request is in the table, or too old.                           *)
LEMMA Listed ==
  ASSUME LoginInv, Attends, NEW r, Stem(r), r.id /= 0
  PROVE  \/ r.id \in DOMAIN requests /\ requests[r.id].made = r.made
         \/ now >= r.made + Timeout
<1>1. PICK q : Copy(q) /\ q.id = r.id /\ q.made = r.made
  BY DEF Stem
<1>2. q.id \in DOMAIN requests \/ now >= q.made + Timeout
  BY <1>1 DEF Copy, Attends, HeldListed, LoginInv, Named
<1>3. ASSUME q.id \in DOMAIN requests PROVE requests[q.id].made = q.made
  <2>1. Copy(requests[q.id]) /\ requests[q.id].id = q.id
    BY <1>3 DEF Copy, LoginInv, Named
  <2> QED BY <1>1, <2>1 DEF Attends, OneMade
<1> QED BY <1>1, <1>2, <1>3

LEMMA OverStays ==
  ASSUME LoginInv, Attends, RowsGo
  PROVE  \A id : Over(id) => Over(id)'
<1> SUFFICES ASSUME NEW id, Over(id), id \in DOMAIN requests' PROVE Over(id)'
  BY DEF Over
<1>1. id /= 0 /\ requests'[id].id = id /\ Stem(requests'[id])
  BY DEF RowsGo
<1>r. PICK r : r = requests'[id]
  OBVIOUS
<1>2. \/ id \in DOMAIN requests /\ requests[id].made = r.made
      \/ now >= r.made + Timeout
  BY <1>1, <1>r, Listed
<1> QED BY <1>2, <1>r DEF Over, RowsGo

LEMMA MovedFacts ==
  ASSUME CalledBefore, NEW h, NEW k, Moves(h, k)
  PROVE  /\ h \in Handlers /\ calls'[h] = k /\ (Free(h)' <=> k.op = "none")
         /\ (Signing(h)' <=> k.op /= "none" /\ Signs(k))
         /\ \A g \in Handlers : g /= h =>
              calls'[g] = calls[g] /\ (Free(g)' <=> Free(g)) /\ (Signing(g)' <=> Signing(g))
<1>1. h \in Handlers /\ calls'[h] = k /\ \A g \in Handlers : g /= h => calls'[g] = calls[g]
  BY DEF Moves
<1>2. (Free(h)' <=> k.op = "none") /\ \A g \in Handlers : g /= h => (Free(g)' <=> Free(g))
  BY <1>1 DEF Free
<1> QED BY <1>1, <1>2 DEF Signing, Signs

LEMMA PromptedStays ==
  ASSUME CalledBefore, LoginInv, Attends, NEW h, NEW k, Moves(h, k), PromptsGo(h)
  PROVE  \A id : Prompted(id) => Prompted(id)'
<1> SUFFICES ASSUME NEW id, Prompted(id) PROVE Prompted(id)'
  OBVIOUS
<1>1. CASE Over(id)
  BY <1>1, OverStays DEF Moves, Prompted
<1>2. CASE id \in prompts
  BY <1>2 DEF PromptsGo, Prompted
<1>3. ASSUME NEW g \in Handlers, ~Free(g), calls[g].await = "verify", calls[g].req.id = id
      PROVE  Prompted(id)'
  <2>1. CASE g = h
    BY <1>3, <2>1 DEF PromptsGo
  <2>2. CASE g /= h
    <3>1. calls'[g] = calls[g] /\ ~Free(g)'
      BY <1>3, <2>2, MovedFacts
    <3> QED BY <1>3, <3>1 DEF Prompted
  <2> QED BY <2>1, <2>2
<1> QED BY <1>1, <1>2, <1>3 DEF Prompted

LEMMA TakenStays ==
  ASSUME CalledBefore, LoginInv, Attends, NEW h, NEW k, Moves(h, k), PromptsGo(h), JobsGo(h)
  PROVE  \A id : Taken(id) => Taken(id)'
<1> SUFFICES ASSUME NEW id, Taken(id) PROVE Taken(id)'
  OBVIOUS
<1>1. CASE Prompted(id)
  BY <1>1, PromptedStays DEF Taken
<1>2. ASSUME NEW job \in jobs, job.id = id PROVE Taken(id)'
  BY <1>2 DEF JobsGo, Taken
<1>3. ASSUME NEW g \in Handlers, ~Free(g), FallsBack(calls[g]), calls[g].req.id = id
      PROVE  Taken(id)'
  <2>1. CASE g = h
    BY <1>3, <2>1 DEF JobsGo
  <2>2. CASE g /= h
    <3>1. calls'[g] = calls[g] /\ ~Free(g)'
      BY <1>3, <2>2, MovedFacts
    <3> QED BY <1>3, <3>1 DEF Taken, FallsBack
  <2> QED BY <2>1, <2>2
<1> QED BY <1>1, <1>2, <1>3 DEF Taken

(* What a step of one handler is, and what it leaves.                      *)
StepOf(h, k) ==
  /\ Moves(h, k) /\ PromptsGo(h) /\ JobsGo(h) /\ HandGoes(h, k)
  /\ SigninsGo /\ Reopens(h) /\ WaitersGo(h, k) /\ Leaves(h, k)

LEMMA CopiesGo ==
  ASSUME CalledBefore, LoginInv, Attends, NEW h, NEW k, Moves(h, k), HandGoes(h, k),
         NEW r, Copy(r)'
  PROVE  /\ r.id = 0 \/ Stem(r)
         /\ r.status /= "pending" => r.id \in settled'
<1>1. ASSUME NEW id \in DOMAIN requests', r = requests'[id] 
      PROVE  Stem(r) /\ (r.status /= "pending" => r.id \in settled')
  BY <1>1 DEF Moves, RowsGo
<1>2. ASSUME NEW g \in Handlers, ~Free(g)', r \in Hand(calls'[g])
      PROVE  (r.id = 0 \/ Stem(r)) /\ (r.status /= "pending" => r.id \in settled')
  <2>1. CASE g = h
    BY <1>2, <2>1, MovedFacts DEF HandGoes
  <2>2. CASE g /= h
    <3>1. Copy(r)
      BY <1>2, <2>2, MovedFacts DEF Copy, Held
    <3> QED BY <3>1, StemOf DEF Attends, EndsSettle, Moves, RowsGo
  <2> QED BY <2>1, <2>2
<1>3. \/ \E id \in DOMAIN requests' : r = requests'[id]
      \/ \E g \in Handlers : ~Free(g)' /\ r \in Hand(calls'[g])
  BY DEF Copy, Held, Hand
<1> QED BY <1>1, <1>2, <1>3

LEMMA CopiesStay ==
  ASSUME CalledBefore, LoginInv, LoginInv', Attends, NEW h, NEW k, StepOf(h, k)
  PROVE  (OneMade /\ HeldListed /\ EndsSettle /\ IdsGiven /\ OnlyPending /\ AskedPrompted)'
<1>1. \A r : Copy(r)' => (r.id = 0 \/ Stem(r)) /\ (r.status /= "pending" => r.id \in settled')
  BY CopiesGo DEF StepOf
<1>2. /\ UNCHANGED <<now, numbered, pending>>
      /\ settled' = settled \cup {id \in DOMAIN requests' : requests'[id].status /= "pending"}
      /\ \A id \in DOMAIN requests' : id /= 0
      /\ \A id \in DOMAIN requests \ DOMAIN requests' : now >= requests[id].made + Timeout
  BY DEF StepOf, Moves, RowsGo
<1>3. \A id : (Over(id) => Over(id)') /\ (Prompted(id) => Prompted(id)')
  BY OverStays, PromptedStays DEF StepOf, Moves
<1>4. OneMade'
  <2> SUFFICES ASSUME NEW q, NEW r, Copy(q)', Copy(r)', q.id = r.id, q.id /= 0 PROVE q.made = r.made
    BY DEF OneMade
  <2>1. PICK q0 : Copy(q0) /\ q0.id = q.id /\ q0.made = q.made
    BY <1>1 DEF Stem
  <2>2. PICK r0 : Copy(r0) /\ r0.id = r.id /\ r0.made = r.made
    BY <1>1 DEF Stem
  <2> QED BY <2>1, <2>2 DEF Attends, OneMade
<1>5. HeldListed'
  <2> SUFFICES ASSUME NEW r, Held(r)', r.id /= 0
               PROVE  r.id \in DOMAIN requests' \/ now >= r.made + Timeout
    BY <1>2 DEF HeldListed
  <2>1. Stem(r)
    BY <1>1 DEF Copy
  <2> QED BY <1>2, <2>1, Listed
<1>6. EndsSettle'
  BY <1>1 DEF EndsSettle
<1>7. IdsGiven'
  <2>1. \A id \in DOMAIN requests' : id \in Nat /\ id < numbered
    BY <1>2 DEF LoginInv, Named, Asks
  <2> QED BY <1>2, <2>1 DEF IdsGiven, Attends
<1>8. OnlyPending'
  <2> SUFFICES ASSUME NEW id \in DOMAIN requests', ~Over(id)' PROVE id = pending
    BY <1>2 DEF OnlyPending
  <2>1. ~Over(id) /\ id \in DOMAIN requests
    BY <1>3 DEF Over
  <2> QED BY <2>1 DEF Attends, OnlyPending
<1>9. AskedPrompted'
  <2> SUFFICES ASSUME NEW r, Copy(r)', r.asked PROVE Prompted(r.id)'
    BY DEF AskedPrompted
  <2>i. PICK id : id = r.id
    OBVIOUS
  <2>1. CASE id = 0
    BY <1>2, <2>1, <2>i DEF Prompted, Over
  <2>2. CASE id /= 0
    <3>1. PICK q : Copy(q) /\ q.id = r.id /\ (r.asked => q.asked \/ Prompted(r.id))
      BY <1>1, <2>2, <2>i DEF Stem
    <3>2. Prompted(id)
      BY <3>1, <2>i DEF Attends, AskedPrompted
    <3> QED BY <1>3, <2>i, <3>2
  <2> QED BY <2>1, <2>2
<1> QED BY <1>4, <1>5, <1>6, <1>7, <1>8, <1>9

LEMMA WorkStays ==
  ASSUME CalledBefore, LoginInv, Attends, NEW h, NEW k, StepOf(h, k)
  PROVE  (HandlersAwait /\ JobsKnown /\ WaitsOpen /\ ReopensSigned)'
<1>1. \A id : /\ Prompted(id) => Prompted(id)'
              /\ Taken(id) => Taken(id)'
              /\ Signins(id) >= 1 => Signins(id)' >= 1
  BY PromptedStays, TakenStays DEF StepOf, SigninsGo
<1>2. settled' = settled \cup {id \in DOMAIN requests' : requests'[id].status /= "pending"}
  BY DEF StepOf, Moves, RowsGo
<1>3. HandlersAwait'
  <2> SUFFICES ASSUME NEW g \in Handlers, ~Free(g)' PROVE Awaits(calls[g])'
    BY DEF HandlersAwait
  <2>c. PICK c : c = calls'[g]
    OBVIOUS
  <2>1. Awaits(c)'
    <3>1. CASE g = h
      BY <2>c, <3>1, MovedFacts DEF StepOf, HandGoes
    <3>2. CASE g /= h
      <4>1. Awaits(c)
        BY <2>c, <3>2, MovedFacts DEF StepOf, Attends, HandlersAwait
      <4> QED BY <1>1, <4>1 DEF Awaits
    <3> QED BY <3>1, <3>2
  <2> QED BY <2>c, <2>1 DEF Awaits
<1>4. JobsKnown'
  BY DEF StepOf, SigninsGo, JobsKnown
<1>5. WaitsOpen'
  BY <1>2 DEF StepOf, WaitersGo, WaitsOpen, Waiting
<1>6. ReopensSigned'
  <2> SUFFICES ASSUME NEW g \in Handlers, ~Free(g)', MakesRequest(calls'[g]),
                      NEW id, id = calls'[g].req.id, id \in settled', id \in DOMAIN requests',
                      requests'[id].status = "pending"
               PROVE  Signins(id)' >= 1
    BY DEF ReopensSigned, MakesRequest, Signs
  <2>1. id \in settled
    BY <1>2
  <2>2. ~Free(g) /\ MakesRequest(calls[g]) /\ calls[g].req.id = id
    <3>1. CASE g = h
      BY <3>1, MovedFacts DEF StepOf, HandGoes
    <3>2. CASE g /= h
      BY <3>2, MovedFacts DEF StepOf
    <3> QED BY <3>1, <3>2
  <2>3. CASE id \in DOMAIN requests /\ requests[id].status = "pending"
    BY <1>1, <2>1, <2>2, <2>3 DEF Attends, ReopensSigned
  <2>4. CASE Signing(h) /\ calls[h].op = "alarm" /\ \E r \in Hand(calls[h]) : r.id = id
    <3>1. Signing(g) /\ calls[g].op /= "alarm" /\ calls[g].req \in Hand(calls[g])
      BY <2>2 DEF MakesRequest, Signing, Hand
    <3>2. h \in Handlers
      BY DEF StepOf, Moves
    <3> QED BY <2>2, <2>4, <3>1, <3>2 DEF LoginInv, OneSigner
  <2> QED BY <2>1, <2>3, <2>4 DEF StepOf, Reopens
<1> QED BY <1>3, <1>4, <1>5, <1>6

LEMMA FollowedStays ==
  ASSUME CalledBefore, LoginInv, Attends, NEW h, NEW k, StepOf(h, k)
  PROVE  Followed'
<1> SUFFICES ASSUME NEW id \in DOMAIN requests', ~Over(id)'
             PROVE  IF Waiting(requests', id) THEN Timely(requests[id].due)' \/ AlarmHas(id)'
                    ELSE Taken(id)' \/ SignsFor(id)'
  BY DEF Followed, Waiting
<1>0. /\ now' = now /\ ~Over(id) /\ id \in DOMAIN requests
      /\ \A i : (Prompted(i) => Prompted(i)') /\ (Taken(i) => Taken(i)')
  BY OverStays, PromptedStays, TakenStays DEF StepOf, Moves, RowsGo, Over
<1>1. CASE Waiting(requests', id)
  <2>1. CASE TimelyNext(requests'[id].due)
    BY <1>1, <2>1 DEF TimelyNext, Timely
  <2>2. CASE HasAlarm(h, k, id)
    <3>1. AlarmHas(id)'
      BY <2>2, MovedFacts DEF StepOf, HasAlarm, AlarmHas, Signs, Hand
    <3> QED BY <1>1, <3>1
  <2>3. CASE /\ Waiting(requests, id) /\ requests'[id].due = requests[id].due
             /\ UNCHANGED alarmAt /\ (AlarmHas(id) => h /= Alarm)
    <3>1. Timely(requests[id].due) \/ AlarmHas(id)
      BY <1>0, <2>3 DEF Attends, Followed
    <3>2. CASE Timely(requests[id].due)
      BY <1>0, <1>1, <2>3, <3>2 DEF Timely
    <3>3. CASE AlarmHas(id)
      <4>1. AlarmHas(id)'
        BY <2>3, <3>3, MovedFacts DEF StepOf, AlarmHas, Hand
      <4> QED BY <1>1, <4>1
    <3> QED BY <3>1, <3>2, <3>3
  <2> QED BY <1>1, <2>1, <2>2, <2>3 DEF StepOf, WaitersGo
<1>2. CASE ~Waiting(requests', id)
  <2>1. CASE Waiting(requests, id)
    <3>1. requests[id].asked /\ requests[id].id = id /\ Copy(requests[id])
      BY <1>0, <2>1 DEF LoginInv, Named, Asks, Waiting, Copy
    <3>2. Prompted(id)
      BY <3>1 DEF Attends, AskedPrompted
    <3>3. Taken(id)'
      BY <1>0, <3>2 DEF Taken
    <3> QED BY <1>2, <3>3
  <2>2. CASE ~Waiting(requests, id)
    <3>1. CASE Taken(id)
      BY <1>0, <1>2, <3>1
    <3>2. ASSUME NEW g \in Handlers, Signing(g), NEW r \in Hand(calls[g]), r.id = id
          PROVE  Taken(id)' \/ SignsFor(id)'
      <4>1. CASE g = h
        <5>1. CASE Signs(k) /\ \E q \in Hand(k) : q.id = r.id
          <6>1. k.op /= "none"
            BY <5>1 DEF Signs
          <6> QED BY <3>2, <5>1, <6>1, MovedFacts DEF StepOf, SignsFor, Hand
        <5> QED BY <1>2, <3>2, <4>1, <5>1 DEF StepOf, Leaves
      <4>2. CASE g /= h
        BY <3>2, <4>2, MovedFacts DEF StepOf, SignsFor, Hand
      <4> QED BY <4>1, <4>2
    <3> QED BY <1>0, <1>2, <2>2, <3>1, <3>2 DEF Attends, Followed, SignsFor
  <2> QED BY <2>1, <2>2
<1> QED BY <1>1, <1>2

LEMMA StepKeeps ==
  ASSUME CalledBefore, LoginInv, LoginInv', Attends, NEW h, NEW k, StepOf(h, k)
  PROVE  Attends'
BY CopiesStay, WorkStays, FollowedStays DEF Attends
-----------------------------------------------------------------------------
(* What a handler does to the table, when it leaves the alarm alone.       *)
Writes(h, r) ==
  \/ UNCHANGED <<requests, settled>>
  \/ /\ SetRequests(Put(requests, r))
     /\ r.id /= 0 /\ Stem(r)
     /\ ~WaitsFor(r) \/ (r.id \in DOMAIN requests /\ r = requests[r.id])
     /\ \/ r.status /= "pending" \/ r.id \notin settled \/ Signins(r.id) >= 1
        \/ r.id \in DOMAIN requests /\ requests[r.id].status = "pending"
        \/ Signing(h) /\ calls[h].op = "alarm" /\ \E q \in Hand(calls[h]) : q.id = r.id

Around == UNCHANGED <<now, numbered, pending, crashes>>

LEMMA SameRows ==
  ASSUME LoginInv, Attends, Around, UNCHANGED <<requests, settled>>
  PROVE  RowsGo
<1>1. ASSUME NEW id \in DOMAIN requests
      PROVE  /\ id /= 0 /\ requests[id].id = id /\ Stem(requests[id])
             /\ requests[id].status /= "pending" => id \in settled
  <2>1. Copy(requests[id]) /\ requests[id].id = id
    BY <1>1 DEF Copy, LoginInv, Named
  <2> QED BY <1>1, <2>1, StemOf DEF Attends, IdsGiven, EndsSettle
<1> QED BY <1>1 DEF RowsGo, Around

LEMMA PutRows ==
  ASSUME LoginInv, Attends, Around, NEW r, SetRequests(Put(requests, r)), r.id /= 0, Stem(r)
  PROVE  RowsGo
<1>1. ASSUME NEW id \in DOMAIN requests
      PROVE  id /= 0 /\ requests[id].id = id /\ Stem(requests[id])
  <2>1. Copy(requests[id]) /\ requests[id].id = id
    BY <1>1 DEF Copy, LoginInv, Named
  <2> QED BY <1>1, <2>1, StemOf DEF Attends, IdsGiven
<1> QED BY <1>1 DEF RowsGo, Around, SetRequests, Put

LEMMA WritesGo ==
  ASSUME CalledBefore, LoginInv, Attends, Around, UNCHANGED <<logins, alarmAt>>, jobs' \subseteq jobs,
         NEW h \in Handlers, NEW k, calls'[h] = k, \A g \in Handlers : g /= h => calls'[g] = calls[g],
         NEW r, Writes(h, r),
         \A id : h = Alarm /\ AlarmHas(id) /\ Waiting(requests', id) => HasAlarm(h, k, id)
  PROVE  Moves(h, k) /\ SigninsGo /\ Reopens(h) /\ WaitersGo(h, k)
<1>1. RowsGo
  BY SameRows, PutRows DEF Writes
<1>2. Moves(h, k)
  BY <1>1 DEF Moves
<1>3. \A id : Signins(id)' = Signins(id)
  BY DEF Signins
<1>4. SigninsGo
  BY <1>3 DEF SigninsGo, Attends, JobsKnown
<1>5. Reopens(h)
  BY <1>3 DEF Writes, SetRequests, Put, Reopens
<1>6. \A id : Waiting(requests', id) => Waiting(requests, id) /\ requests'[id].due = requests[id].due
  BY DEF Writes, SetRequests, Put, Waiting, WaitsFor
<1>7. WaitersGo(h, k)
  BY <1>6 DEF WaitersGo, Attends, WaitsOpen
<1> QED BY <1>2, <1>4, <1>5, <1>7

(* A handler that ends.                                                    *)
LEMMA EndsStep ==
  ASSUME CalledBefore, LoginInv, LoginInv', Attends, Around, UNCHANGED <<logins, alarmAt>>,
         jobs' \subseteq jobs, NEW h \in Handlers, Ends(h), NEW r, Writes(h, r),
         PromptsGo(h), JobsGo(h),
         Signing(h) => calls[h].op /= "alarm" /\ \A q \in Hand(calls[h]) : Taken(q.id)'
  PROVE  Attends'
<1>1. /\ calls'[h] = Idle /\ \A g \in Handlers : g /= h => calls'[g] = calls[g]
      /\ Idle.op = "none"
  BY DEF Ends, Idle, CalledBefore, Underway
<1>2. \A id : h = Alarm => ~AlarmHas(id)
  BY DEF AlarmHas
<1>3. Moves(h, Idle) /\ SigninsGo /\ Reopens(h) /\ WaitersGo(h, Idle)
  BY <1>1, <1>2, WritesGo
<1>4. HandGoes(h, Idle)
  BY <1>1 DEF HandGoes
<1>5. Leaves(h, Idle)
  BY DEF Leaves
<1> QED BY <1>3, <1>4, <1>5, StepKeeps DEF StepOf

(* One that goes on, and does not sign in.                                 *)
LEMMA GoesStep ==
  ASSUME CalledBefore, LoginInv, LoginInv', Attends, Around, UNCHANGED <<logins, alarmAt>>,
         jobs' \subseteq jobs, NEW h \in Handlers, ~Signing(h), NEW k, IsCall(k), NEW what,
         Await(h, k, what), what \in {"check", "ask", "verify", "seal"}, k.op /= "alarm",
         what = "ask" => k.op = "done" /\ Signins(k.req.id) >= 1,
         what \in {"ask", "verify"} => k.req.id /= 0,
         k.todo = {}, k.req = NoRequest \/ Copy(k.req),
         NEW r, Writes(h, r), PromptsGo(h), JobsGo(h)
  PROVE  Attends'
<1>k. PICK k1 : k1 = [k EXCEPT !.await = what]
  OBVIOUS
<1>0. /\ k1.op = k.op /\ k1.req = k.req /\ k1.todo = {} /\ k1.await = what
      /\ Hand(k1) = {k.req}
  BY <1>k, AwaitedCall DEF Hand
<1>1. calls'[h] = k1 /\ \A g \in Handlers : g /= h => calls'[g] = calls[g]
  BY <1>k DEF Await, CalledBefore, Underway
<1>2. \A id : h = Alarm => ~AlarmHas(id)
  BY DEF AlarmHas
<1>3. Moves(h, k1) /\ SigninsGo /\ Reopens(h) /\ WaitersGo(h, k1)
  BY <1>1, <1>2, WritesGo
<1>4. HandGoes(h, k1)
  <2>1. (k.req.id = 0 \/ Stem(k.req)) /\ (k.req.status /= "pending" => k.req.id \in settled')
    BY <1>3, StemOf DEF NoRequest, Attends, EndsSettle, Moves, RowsGo
  <2>2. Awaits(k1)'
    BY <1>0, <1>3 DEF Awaits, OnRequest, FallsBack, Hand, SigninsGo
  <2>3. ~MakesRequest(k1)
    BY <1>0 DEF MakesRequest, Signs
  <2> QED BY <1>0, <2>1, <2>2, <2>3 DEF HandGoes
<1>5. Leaves(h, k1)
  BY DEF Leaves
<1> QED BY <1>3, <1>4, <1>5, StepKeeps DEF StepOf

(* One that signs in goes on with the same request.                        *)
LEMMA SignerStep ==
  ASSUME CalledBefore, LoginInv, LoginInv', Attends, Around, UNCHANGED <<requests, settled, alarmAt>>,
         jobs \subseteq jobs', SigninsGo, NEW h \in Handlers, ~Free(h),
         calls[h].await \in {"login", "taken", "ask", "asked"},
         prompts \subseteq prompts', NEW what, Await(h, calls[h], what),
         what \in {"login", "taken", "ask", "asked"},
         what = "taken" => \A id : id = calls[h].req.id => Taken(id)',
         what = "asked" => \A id : id = calls[h].req.id => Prompted(id)',
         calls[h].op = "done" => calls[h].await = "ask" /\ what = "asked"
  PROVE  Attends'
<1>k. PICK k : k = calls[h]
  OBVIOUS
<1>k1. PICK k1 : k1 = [k EXCEPT !.await = what]
  OBVIOUS
<1>0. IsCall(k) /\ Role(h, k) /\ Awaits(k)
  BY <1>k, RoleOf DEF Attends, HandlersAwait
<1>1. /\ k1.op = k.op /\ k1.req = k.req /\ k1.todo = k.todo /\ k1.await = what
      /\ Hand(k1) = Hand(k)
  BY <1>0, <1>k1, AwaitedCall DEF Hand
<1>2. calls'[h] = k1 /\ \A g \in Handlers : g /= h => calls'[g] = calls[g]
  BY <1>k, <1>k1 DEF Await, CalledBefore, Underway
<1>3. RowsGo
  BY SameRows
<1>4. Moves(h, k1)
  BY <1>2, <1>3 DEF Moves
<1>5. k1.op \in {"session", "app", "alarm"} \/ k1.op = "done"
  BY <1>0, <1>1, <1>k DEF Role, Signs
<1>6. PromptsGo(h)
  BY <1>k DEF PromptsGo, Prompted
<1>7. JobsGo(h)
  <2>1. \A id : FallsBack(k) /\ id = k.req.id => Taken(id)'
    BY <1>1, <1>k DEF FallsBack, Taken
  <2> QED BY <1>k, <2>1 DEF JobsGo
<1>8. \A id : (Prompted(id) => Prompted(id)') /\ (Taken(id) => Taken(id)')
  BY <1>4, <1>6, <1>7, PromptedStays, TakenStays
<1>9. HandGoes(h, k1)
  <2>1. ASSUME NEW r \in Hand(k1) PROVE (r.id = 0 \/ Stem(r)) /\ (r.status /= "pending" => r.id \in settled')
    <3>1. Copy(r)
      BY <1>1, <1>k, <2>1 DEF Copy, Held
    <3> QED BY <3>1, StemOf DEF Attends, EndsSettle
  <2>2. Awaits(k1)'
    <3>1. k1.req.id /= 0 /\ (\A r \in k1.todo : r.id /= 0) /\ (k1.op = "alarm" => \A r \in Hand(k1) : r.asked)
      BY <1>0, <1>1, <1>k DEF Awaits, OnRequest
    <3>2. (k1.await = "taken" => Taken(k1.req.id)') /\ (k1.await = "asked" => Prompted(k1.req.id)')
      <4>i. PICK id : id = k1.req.id
        OBVIOUS
      <4> QED BY <1>1, <1>k, <4>i
    <3>3. FallsBack(k1) => Signins(k1.req.id)' >= 1
      BY <1>0, <1>1, <1>k DEF Awaits, FallsBack, SigninsGo
    <3> QED BY <3>1, <3>2, <3>3 DEF Awaits
  <2>3. MakesRequest(k1) => MakesRequest(k)
    BY <1>1, <1>k DEF MakesRequest, Signs
  <2> QED BY <1>1, <1>k, <2>1, <2>2, <2>3 DEF HandGoes
<1>10. Reopens(h)
  BY DEF Reopens
<1>11. WaitersGo(h, k1)
  <2>1. \A id : AlarmHas(id) /\ h = Alarm => HasAlarm(h, k1, id)
    BY <1>1, <1>k DEF AlarmHas, HasAlarm, Signs
  <2> QED BY <2>1 DEF WaitersGo, Attends, WaitsOpen
<1>12. Leaves(h, k1)
  BY <1>1, <1>k DEF Leaves, Signing, Signs
<1> QED BY <1>4, <1>6, <1>7, <1>9, <1>10, <1>11, <1>12, StepKeeps DEF StepOf

(* A request that a copy shows to be over is.                              *)
LEMMA CopyOver ==
  ASSUME CalledBefore, LoginInv, Attends, NEW r, Copy(r), IsRequest(r), NEW at \in Nat, at <= now,
         ~Pending(r, at)
  PROVE  Over(r.id)
<1>1. CASE r.status /= "pending"
  BY <1>1 DEF Attends, EndsSettle, Over
<1>2. CASE at >= r.made + Timeout
  <2>1. now >= r.made + Timeout
    BY <1>2, TimesAssumption DEF IsRequest, CalledBefore
  <2>2. CASE r.id = 0
    BY <2>2 DEF Attends, IdsGiven, Over
  <2>3. CASE r.id /= 0
    <3>1. r.id \in DOMAIN requests => requests[r.id].made = r.made
      <4>1. ASSUME r.id \in DOMAIN requests PROVE Copy(requests[r.id]) /\ requests[r.id].id = r.id
        BY <4>1 DEF Copy, LoginInv, Named
      <4> QED BY <2>3, <4>1 DEF Attends, OneMade
    <3> QED BY <2>1, <3>1 DEF Over
  <2> QED BY <2>2, <2>3
<1>3. r.status /= "pending" \/ at >= r.made + Timeout
  BY TimesAssumption DEF Pending, IsRequest
<1> QED BY <1>1, <1>2, <1>3

LEMMA NotStoredOver ==
  ASSUME CalledBefore, LoginInv, Attends, NEW id, NEW at \in Nat, at <= now,
         ~Stored(requests, id, at)
  PROVE  Over(id)
<1>1. CASE id \notin DOMAIN requests
  BY <1>1 DEF Over
<1>2. CASE id \in DOMAIN requests
  <2>1. Copy(requests[id]) /\ IsRequest(requests[id]) /\ requests[id].id = id
    BY <1>2 DEF Copy, CalledBefore, Requests, LoginInv, Named
  <2>2. ~Pending(requests[id], at)
    BY <1>2 DEF Stored
  <2> QED BY <2>1, <2>2, CopyOver
<1> QED BY <1>1, <1>2

LEMMA JoinAttends ==
  ASSUME CalledBefore, LoginInv, LoginInv', Attends, NEW h \in Handlers, NEW k, Join(h, k),
         Free(h) \/ calls[h].await = "check",
         UNCHANGED <<now, crashes, alarmAt, jobs, prompts, logins>>
  PROVE  Attends'
<1>1. Writes(h, NoRequest) /\ Around /\ Ends(h) /\ jobs' \subseteq jobs /\ UNCHANGED <<logins, alarmAt>>
  BY DEF Writes, Around, Join
<1>2. PromptsGo(h) /\ JobsGo(h)
  BY DEF PromptsGo, JobsGo, FallsBack
<1>3. ~Signing(h)
  BY DEF Signing, Signs
<1> QED BY <1>1, <1>2, <1>3, EndsStep

(* A request that is made is in the hand of its maker; all others are over.*)
LEMMA MakeAttends ==
  ASSUME CalledBefore, LoginInv, LoginInv', TypeInv, Attends, NEW h \in Handlers, NEW k, IsCall(k),
         MakesOne(k), Make(h, k), Free(h) \/ calls[h].await = "check",
         UNCHANGED <<now, crashes, alarmAt, jobs, prompts, logins>>
  PROVE  Attends'
<1>r. PICK r : r = [NoRequest EXCEPT !.id = numbered, !.made = k.at, !.phone = k.op = "session"]
  OBVIOUS
<1>w. PICK what : what = IF Plan(k) \in {"app", "vault_first"} THEN "login" ELSE "ask"
  OBVIOUS
<1>k1. PICK k1 : k1 = [[k EXCEPT !.req = r, !.plan = Plan(k)] EXCEPT !.await = what]
  OBVIOUS
<1>1. /\ numbered' = numbered + 1 /\ SetRequests(Put(requests, r)) /\ pending' = r.id
      /\ Await(h, [k EXCEPT !.req = r, !.plan = Plan(k)], what) /\ ~Joins(k)
  BY <1>r, <1>w DEF Make
<1>2. /\ r.id = numbered /\ r.due = 0 /\ r.made = k.at /\ r.status = "pending" /\ ~r.asked
  BY <1>r DEF NoRequest
<1>3. /\ calls'[h] = k1 /\ \A g \in Handlers : g /= h => calls'[g] = calls[g]
      /\ k1.op = k.op /\ k1.req = r /\ k1.todo = {} /\ k1.await = what
  BY <1>1, <1>k1 DEF Await, CalledBefore, Underway, IsCall, MakesOne
<1>4. /\ numbered \in Nat \ {0} /\ now \in Nat
      /\ \A q : Asks(q) => q.id \in Nat /\ q.id < numbered
  BY DEF LoginInv, Named, CalledBefore, Asks
<1>5. ~Stored(requests, pending, k.at) /\ k.at \in Nat /\ k.at <= now
  BY <1>1 DEF Joins, IsCall
<1>6. \A id : Over(id)
  <2> SUFFICES ASSUME NEW id, ~Over(id) PROVE FALSE
    OBVIOUS
  <2>1. id = pending
    BY DEF Attends, OnlyPending, Over
  <2> QED BY <1>5, <2>1, NotStoredOver
<1>7. requests' = Put(requests, r) /\ numbered \notin DOMAIN requests /\ numbered \notin settled
  BY <1>1, <1>4 DEF SetRequests, LoginInv, Named, Attends, IdsGiven
<1>8. /\ DOMAIN requests' = DOMAIN requests \cup {numbered}
      /\ requests'[numbered] = r
      /\ \A id \in DOMAIN requests : requests'[id] = requests[id] /\ requests[id].id = id
  BY <1>2, <1>7 DEF Put, LoginInv, Named
<1>9. settled' = settled
  <2>1. \A id \in DOMAIN requests : requests[id].status /= "pending" => id \in settled
    BY <1>8 DEF Attends, EndsSettle, Copy
  <2> QED BY <1>1, <1>2, <1>8, <2>1 DEF SetRequests
<1>10. \A id : id /= numbered => Over(id)' /\ Taken(id)'
  BY <1>6, <1>8, <1>9 DEF Over, Taken, Prompted
<1>11. \A g \in Handlers : g /= h => (Free(g)' <=> Free(g))
  BY <1>3 DEF Free
<1>12. \A q : Copy(q)' => Copy(q) \/ q = r
  <2> SUFFICES ASSUME NEW q, Copy(q)', q /= r PROVE Copy(q)
    OBVIOUS
  <2>1. ASSUME NEW id \in DOMAIN requests', q = requests'[id] PROVE Copy(q)
    BY <1>8, <2>1 DEF Copy
  <2>2. ASSUME NEW g \in Handlers, ~Free(g)', q \in Hand(calls'[g]) PROVE Copy(q)
    BY <1>3, <1>11, <2>2 DEF Copy, Held, Hand
  <2> QED BY <2>1, <2>2 DEF Copy, Held, Hand
<1>13. \A q : Copy(q) => q.id \in Nat /\ q.id < numbered
  BY <1>4, RoleOf DEF Copy, Held, LoginInv, Named
<1>14. \A q : Held(q)' => Held(q) \/ q = r
  BY <1>3, <1>11 DEF Held, Hand
<1>15. OneMade' /\ HeldListed' /\ EndsSettle' /\ IdsGiven' /\ OnlyPending' /\ AskedPrompted'
  <2>1. OneMade'
    <3> SUFFICES ASSUME NEW q, NEW s, Copy(q)', Copy(s)', q.id = s.id, q.id /= 0 PROVE q.made = s.made
      BY DEF OneMade
    <3>1. CASE Copy(q) /\ Copy(s)
      BY <3>1 DEF Attends, OneMade
    <3>2. CASE q = r \/ s = r
      BY <1>2, <1>4, <1>12, <1>13, <3>2
    <3> QED BY <1>12, <3>1, <3>2
  <2>2. HeldListed'
    BY <1>2, <1>8, <1>14 DEF HeldListed, Attends
  <2>3. EndsSettle'
    BY <1>2, <1>9, <1>12 DEF EndsSettle, Attends
  <2>4. IdsGiven'
    BY <1>1, <1>4, <1>8, <1>9 DEF IdsGiven, Attends
  <2>5. OnlyPending'
    BY <1>1, <1>2, <1>10 DEF OnlyPending
  <2>6. AskedPrompted'
    <3> SUFFICES ASSUME NEW q, Copy(q)', q.asked PROVE Prompted(q.id)'
      BY DEF AskedPrompted
    <3>i. PICK id : id = q.id
      OBVIOUS
    <3>1. id /= numbered
      BY <1>2, <1>4, <1>12, <1>13, <3>i
    <3> QED BY <1>10, <3>1, <3>i DEF Prompted
  <2> QED BY <2>1, <2>2, <2>3, <2>4, <2>5, <2>6
<1>16. \A id : Signins(id)' = Signins(id)
  BY DEF Signins
<1>17. Signs(k1) /\ k1.op /= "none" /\ k1.op /= "alarm" /\ Hand(k1) = {r}
  BY <1>3, <1>w DEF Signs, MakesOne, Hand
<1>18. HandlersAwait'
  <2> SUFFICES ASSUME NEW g \in Handlers, ~Free(g)' PROVE Awaits(calls[g])'
    BY DEF HandlersAwait
  <2>c. PICK c : c = calls'[g]
    OBVIOUS
  <2>1. Awaits(c)'
    <3>1. CASE g = h
      <4>1. c = k1
        BY <1>3, <2>c, <3>1
      <4>2. c.req.id /= 0 /\ c.todo = {} /\ c.await \in {"login", "ask"} /\ c.op \in {"session", "app"}
        BY <1>2, <1>3, <1>4, <1>w, <4>1 DEF MakesOne
      <4> QED BY <4>2 DEF Awaits, FallsBack
    <3>2. CASE g /= h
      <4>1. Awaits(c) /\ Role(g, c) /\ c = calls[g]
        BY <1>3, <1>11, <2>c, <3>2 DEF Attends, HandlersAwait, LoginInv, Roles
      <4>2. \A id : id = c.req.id => id /= numbered
        BY <1>4, <4>1 DEF Role, Hand
      <4>3. \A id : id = c.req.id => Prompted(id)' /\ Taken(id)'
        BY <1>10, <4>2 DEF Prompted
      <4>4. Prompted(c.req.id)' /\ Taken(c.req.id)'
        <5>i. PICK id : id = c.req.id
          OBVIOUS
        <5> QED BY <4>3, <5>i
      <4> QED BY <1>16, <4>1, <4>4 DEF Awaits
    <3> QED BY <3>1, <3>2
  <2> QED BY <2>c, <2>1 DEF Awaits
<1>19. JobsKnown'
  BY <1>16 DEF JobsKnown, Attends
<1>20. WaitsOpen'
  BY <1>2, <1>8, <1>9 DEF WaitsOpen, Attends, Waiting
<1>21. ReopensSigned'
  <2> SUFFICES ASSUME NEW g \in Handlers, ~Free(g)', MakesRequest(calls'[g]),
                      NEW id, id = calls'[g].req.id, id \in settled', id \in DOMAIN requests',
                      requests'[id].status = "pending"
               PROVE  Signins(id)' >= 1
    BY DEF ReopensSigned, MakesRequest, Signs
  <2>1. id /= numbered /\ id \in DOMAIN requests
    BY <1>7, <1>8, <1>9
  <2>2. g /= h
    BY <1>2, <1>3, <2>1
  <2> QED BY <1>3, <1>8, <1>9, <1>11, <1>16, <2>1, <2>2 DEF Attends, ReopensSigned
<1>22. Followed'
  <2> SUFFICES ASSUME NEW id \in DOMAIN requests', ~Over(id)'
               PROVE  ~Waiting(requests', id) /\ SignsFor(id)'
    BY DEF Followed, Waiting
  <2>1. id = numbered
    BY <1>10
  <2>2. ~Waiting(requests', id)
    BY <1>2, <1>8, <2>1 DEF Waiting
  <2>3. SignsFor(id)'
    <3>1. calls'[h] = k1 /\ r \in Hand(k1) /\ r.id = id /\ ~Free(h)'
      BY <1>2, <1>3, <1>17, <2>1 DEF Free
    <3> QED BY <1>17, <3>1 DEF SignsFor, Signing, Signs, Hand
  <2> QED BY <2>2, <2>3
<1> QED BY <1>15, <1>18, <1>19, <1>20, <1>21, <1>22 DEF Attends

LEMMA JoinOrMakeAttends ==
  ASSUME CalledBefore, LoginInv, LoginInv', TypeInv, Attends, NEW h \in Handlers, NEW k, IsCall(k),
         MakesOne(k), JoinOrMake(h, k), Free(h) \/ calls[h].await = "check",
         UNCHANGED <<now, crashes, jobs, prompts, logins>>
  PROVE  Attends'
BY JoinAttends, MakeAttends DEF JoinOrMake

LEMMA StartSessionAttends ==
  ASSUME CalledBefore, LoginInv, LoginInv', TypeInv, Attends, NEW h \in Handlers, StartSession(h)
  PROVE  Attends'
<1>1. PICK op \in {"session", "app"} :
        \/ /\ Await(h, Loaded(op), "check")
           /\ UNCHANGED <<store, numbered, settled>>
        \/ JoinOrMake(h, Loaded(op))
  BY DEF StartSession
<1>2. /\ UNCHANGED <<now, crashes, jobs, prompts, logins>> /\ Free(h) /\ IsCall(Loaded(op))
      /\ Loaded(op).op = op /\ Loaded(op).todo = {} /\ Loaded(op).req = NoRequest
  BY LoadedCall, LoadedFacts DEF StartSession, outside, Arrives, CalledBefore
<1>3. CASE Await(h, Loaded(op), "check") /\ UNCHANGED <<store, numbered, settled>>
  <2>1. Writes(h, NoRequest) /\ Around /\ UNCHANGED <<logins, alarmAt>> /\ jobs' \subseteq jobs
    BY <1>2, <1>3 DEF Writes, Around, store
  <2>2. PromptsGo(h) /\ JobsGo(h) /\ ~Signing(h)
    BY <1>2 DEF PromptsGo, JobsGo, Signing
  <2>3. op \notin {"alarm", "done"}
    BY <1>1
  <2> QED BY <1>2, <1>3, <2>1, <2>2, <2>3, GoesStep
<1>4. CASE JoinOrMake(h, Loaded(op))
  BY <1>2, <1>4, JoinOrMakeAttends DEF MakesOne
<1> QED BY <1>1, <1>3, <1>4

LEMMA CheckedAttends ==
  ASSUME CalledBefore, LoginInv, LoginInv', TypeInv, Attends, NEW h \in Handlers, Checked(h)
  PROVE  Attends'
<1>k. PICK k : k = calls[h]
  OBVIOUS
<1>k1. PICK k1 : k1 = [k EXCEPT !.doc = NoSession(@)]
  OBVIOUS
<1>1. /\ ~Free(h) /\ IsCall(k) /\ Role(h, k) /\ k.await = "check"
      /\ UNCHANGED <<now, crashes, jobs, prompts, logins>>
  BY <1>k, RoleOf DEF Checked, outside
<1>2. MakesOne(k) /\ ~Signing(h)
  BY <1>1, <1>k DEF Role, Signing, Signs
<1>3. IsCall(k1) /\ MakesOne(k1)
  BY <1>1, <1>2, <1>k1, DocKeeps DEF IsCall, MakesOne
<1>4. \/ Ends(h) /\ UNCHANGED <<requests, pending, alarmAt, numbered, settled>>
      \/ JoinOrMake(h, k1)
      \/ JoinOrMake(h, k)
  BY <1>k, <1>k1 DEF Checked
<1>5. CASE Ends(h) /\ UNCHANGED <<requests, pending, alarmAt, numbered, settled>>
  <2>1. Writes(h, NoRequest) /\ Around /\ jobs' \subseteq jobs /\ UNCHANGED <<logins, alarmAt>>
    BY <1>1, <1>5 DEF Writes, Around
  <2>2. PromptsGo(h) /\ JobsGo(h)
    BY <1>k, <1>1 DEF PromptsGo, JobsGo, FallsBack
  <2> QED BY <1>2, <1>5, <2>1, <2>2, EndsStep
<1> QED BY <1>k, <1>1, <1>2, <1>3, <1>4, <1>5, JoinOrMakeAttends

(* The engine works on what it takes.                                      *)
LEMMA EngineTakesAttends ==
  ASSUME CalledBefore, LoginInv, LoginInv', Attends, NEW h \in Handlers, EngineTakes(h)
  PROVE  Attends'
<1>k. PICK k : k = calls[h]
  OBVIOUS
<1>id. PICK id : id = k.req.id
  OBVIOUS
<1>n. PICK n : n = Signins(id) + 1
  OBVIOUS
<1>1. /\ ~Free(h) /\ k.await = "login" /\ Await(h, calls[h], "taken")
      /\ UNCHANGED <<now, requests, pending, alarmAt, prompts, numbered, crashes, settled>>
      /\ jobs' = jobs \cup {[id |-> id, n |-> n]}
      /\ logins' = [i \in DOMAIN logins \cup {id} |-> IF i = id THEN n ELSE logins[i]]
  BY <1>k, <1>id, <1>n DEF EngineTakes, store, Signins
<1>2. Signins(id) \in Nat
  BY DEF LoginInv, Named, Signins
<1>3. /\ \A i : i /= id => Signins(i)' = Signins(i)
      /\ Signins(id)' = n /\ n >= 1
  BY <1>1, <1>2, <1>n DEF Signins
<1>4. SigninsGo
  <2>1. \A i : Signins(i) >= 1 => Signins(i)' >= 1
    BY <1>3
  <2>2. \A job \in jobs' : job.id = id \/ job \in jobs
    BY <1>1
  <2> QED BY <1>3, <2>1, <2>2 DEF SigninsGo, Attends, JobsKnown
<1>5. \A i : i = calls[h].req.id => Taken(i)'
  <2>j. PICK job : job = [id |-> id, n |-> n]
    OBVIOUS
  <2>1. job \in jobs' /\ job.id = id
    BY <1>1, <2>j
  <2> QED BY <1>k, <1>id, <2>1 DEF Taken
<1>6. calls[h].op /= "done"
  <2>1. Role(h, k)
    BY <1>1, <1>k, RoleOf
  <2> QED BY <1>1, <1>k, <2>1 DEF Role, Signs
<1> QED BY <1>k, <1>1, <1>4, <1>5, <1>6, SignerStep DEF Around

LEMMA PhoneGetsAttends ==
  ASSUME CalledBefore, LoginInv, LoginInv', Attends, NEW h \in Handlers, PhoneGets(h)
  PROVE  Attends'
<1>k. PICK k : k = calls[h]
  OBVIOUS
<1>1. /\ ~Free(h) /\ k.await = "ask" /\ Await(h, calls[h], "asked")
      /\ UNCHANGED <<now, requests, pending, alarmAt, jobs, logins, numbered, crashes, settled>>
      /\ prompts' = prompts \cup {k.req.id}
  BY <1>k DEF PhoneGets, store
<1>2. SigninsGo
  BY <1>1 DEF SigninsGo, Signins, Attends, JobsKnown
<1>3. \A i : i = calls[h].req.id => Prompted(i)'
  BY <1>k, <1>1 DEF Prompted
<1> QED BY <1>k, <1>1, <1>2, <1>3, SignerStep DEF Around

LEMMA LinkAttends ==
  ASSUME CalledBefore, LoginInv, LoginInv', Attends, NEW h \in Handlers, Link(h)
  PROVE  Attends'
<1>k. PICK k : k = [Loaded("link") EXCEPT !.doc = NewSession(@, now)]
  OBVIOUS
<1>1. /\ Await(h, k, "seal") /\ Free(h)
      /\ UNCHANGED <<now, requests, pending, alarmAt, jobs, prompts, logins, numbered, crashes, settled>>
  BY <1>k DEF Link, store, outside, Arrives
<1>2. IsCall(k) /\ k.op = "link" /\ k.todo = {} /\ k.req = NoRequest
  <2>1. IsCall(Loaded("link"))
    BY LoadedCall DEF CalledBefore
  <2>2. Loaded("link").op = "link" /\ Loaded("link").todo = {} /\ Loaded("link").req = NoRequest
    BY LoadedFacts
  <2> QED BY <1>k, <2>1, <2>2, DocKeeps DEF IsCall
<1>3. Writes(h, NoRequest) /\ Around /\ jobs' \subseteq jobs
  BY <1>1 DEF Writes, Around
<1>4. PromptsGo(h) /\ JobsGo(h) /\ ~Signing(h)
  BY <1>1 DEF PromptsGo, JobsGo, Signing
<1>5. k.op \notin {"alarm", "done"}
  BY <1>2
<1> QED BY <1>1, <1>2, <1>3, <1>4, <1>5, GoesStep

LEMMA SealedAttends ==
  ASSUME CalledBefore, LoginInv, LoginInv', Attends, NEW h \in Handlers, Sealed(h)
  PROVE  Attends'
<1>1. /\ ~Free(h) /\ calls[h].await = "seal" /\ Ends(h)
      /\ UNCHANGED <<now, requests, pending, alarmAt, jobs, prompts, logins, numbered, crashes, settled>>
  BY DEF Sealed, outside
<1>2. Writes(h, NoRequest) /\ Around /\ jobs' \subseteq jobs
  BY <1>1 DEF Writes, Around
<1>3. PromptsGo(h) /\ JobsGo(h) /\ ~Signing(h)
  BY <1>1 DEF PromptsGo, JobsGo, FallsBack, Signing, Signs
<1> QED BY <1>1, <1>2, <1>3, EndsStep

LEMMA AnswerAttends ==
  ASSUME CalledBefore, LoginInv, LoginInv', Attends, NEW h \in Handlers, Answer(h)
  PROVE  Attends'
<1>1. PICK id \in DOMAIN requests :
        /\ prompts' = prompts \ {id}
        /\ Await(h, [Loaded("answer") EXCEPT !.req = requests[id]], "verify")
  BY DEF Answer
<1>k. PICK k : k = [Loaded("answer") EXCEPT !.req = requests[id]]
  OBVIOUS
<1>2. /\ Free(h)
      /\ UNCHANGED <<now, requests, pending, alarmAt, jobs, logins, numbered, crashes, settled>>
  BY DEF Answer, store
<1>3. IsCall(Loaded("answer")) /\ IsRequest(requests[id]) /\ Copy(requests[id]) /\ requests[id].id = id
      /\ id /= 0
  BY LoadedCall DEF CalledBefore, Requests, LoginInv, Named, Copy, Attends, IdsGiven
<1>4. IsCall(k) /\ k.op = "answer" /\ k.todo = {} /\ k.req = requests[id]
  <2>1. Loaded("answer").op = "answer" /\ Loaded("answer").todo = {}
    BY LoadedFacts
  <2> QED BY <1>3, <1>k, <2>1, ReqKeeps DEF IsCall
<1>5. Writes(h, NoRequest) /\ Around /\ jobs' \subseteq jobs
  BY <1>2 DEF Writes, Around
<1>6. PromptsGo(h)
  <2>k. PICK k1 : k1 = [k EXCEPT !.await = "verify"]
    OBVIOUS
  <2>1. k1.op = "answer" /\ k1.await = "verify" /\ k1.req.id = id
    BY <1>3, <1>4, <2>k, AwaitedCall
  <2>2. calls'[h] = k1
    BY <1>1, <1>k, <2>k DEF Await, CalledBefore, Underway
  <2>3. Prompted(id)'
    BY <2>1, <2>2 DEF Prompted, Free
  <2>4. \A i \in prompts \ prompts' : i = id
    BY <1>1
  <2> QED BY <1>2, <2>3, <2>4 DEF PromptsGo
<1>7. JobsGo(h) /\ ~Signing(h)
  BY <1>2 DEF JobsGo, Signing
<1>8. k.op \notin {"alarm", "done"}
  BY <1>4
<1> QED BY <1>1, <1>k, <1>2, <1>3, <1>4, <1>5, <1>6, <1>7, <1>8, GoesStep

(* Working cookies settle the request, or it was over; if VTOP is out of   *)
(* reach, the phone still has the prompt.                                  *)
LEMMA VerifiedAttends ==
  ASSUME CalledBefore, LoginInv, LoginInv', Attends, NEW h \in Handlers, Verified(h)
  PROVE  Attends'
<1>k. PICK k : k = calls[h]
  OBVIOUS
<1>k1. PICK k1 : k1 = [k EXCEPT !.doc = NewSession(@, k.at)]
  OBVIOUS
<1>1. /\ ~Free(h) /\ k.await = "verify"
      /\ UNCHANGED <<now, pending, alarmAt, jobs, logins, numbered, crashes>>
  BY <1>k DEF Verified
<1>2. IsCall(k) /\ Role(h, k) /\ IsRequest(k.req) /\ Copy(k.req) /\ k.req.id /= 0
  BY <1>1, <1>k, RoleOf DEF Hand, Copy, Held, Attends, HandlersAwait, Awaits, OnRequest
<1>3. ~Signing(h) /\ k.op \in {"answer", "link"} /\ k.todo = {}
  BY <1>1, <1>2, <1>k DEF Role, Signing, Signs
<1>4. PICK status \in {"success", "error"} :
        \/ /\ IF Pending(k.req, k.at) THEN SetRequests(Put(requests, [k.req EXCEPT !.status = status]))
              ELSE UNCHANGED <<requests, settled>>
           /\ UNCHANGED prompts
           /\ Ends(h) \/ Await(h, k1, "seal")
        \/ /\ prompts' = prompts \cup {k.req.id}
           /\ Ends(h)
           /\ UNCHANGED <<requests, settled>>
  BY <1>k, <1>k1 DEF Verified
<1>r. PICK r : r = [k.req EXCEPT !.status = status]
  OBVIOUS
<1>5. r.id = k.req.id /\ r.made = k.req.made /\ r.asked = k.req.asked /\ r.status /= "pending"
  BY <1>2, <1>r DEF IsRequest
<1>6. Stem(r) /\ ~WaitsFor(r)
  <2>1. Stem(k.req)
    BY <1>2, StemOf
  <2> QED BY <1>5, <2>1, StemLike DEF WaitsFor
<1>7. Writes(h, r)
  BY <1>2, <1>4, <1>5, <1>6, <1>r DEF Writes
<1>8. Around /\ jobs' \subseteq jobs /\ UNCHANGED <<logins, alarmAt>>
  BY <1>1 DEF Around
<1>9. RowsGo
  BY <1>5, <1>6, <1>7, <1>8, SameRows, PutRows DEF Writes
<1>10. \A id : id = k.req.id => Prompted(id)'
  <2> SUFFICES ASSUME NEW id, id = k.req.id PROVE Prompted(id)'
    OBVIOUS
  <2>1. CASE ~Pending(k.req, k.at)
    <3>1. Over(id)
      BY <1>2, <2>1, CopyOver DEF IsCall
    <3> QED BY <1>9, <3>1, OverStays DEF Prompted
  <2>2. CASE SetRequests(Put(requests, r))
    <3>1. id \in settled'
      BY <1>5, <2>2 DEF SetRequests, Put
    <3> QED BY <3>1 DEF Prompted, Over
  <2>3. CASE prompts' = prompts \cup {k.req.id}
    BY <2>3 DEF Prompted
  <2> QED BY <1>4, <1>r, <2>1, <2>2, <2>3
<1>11. PromptsGo(h)
  BY <1>4, <1>10, <1>k DEF PromptsGo
<1>12. JobsGo(h)
  BY <1>1, <1>k DEF JobsGo, FallsBack
<1>13. CASE Ends(h)
  BY <1>3, <1>7, <1>8, <1>11, <1>12, <1>13, EndsStep
<1>14. CASE Await(h, k1, "seal")
  <2>1. IsCall(k1) /\ k1.op = k.op /\ k1.todo = {} /\ k1.req = k.req
    BY <1>2, <1>3, <1>k1, DocKeeps DEF IsCall
  <2>2. k1.op /= "alarm"
    BY <1>3, <2>1
  <2> QED BY <1>2, <1>3, <1>7, <1>8, <1>11, <1>12, <1>14, <2>1, <2>2, GoesStep
<1> QED BY <1>4, <1>13, <1>14
-----------------------------------------------------------------------------
(* What moves no handler and signs in for nothing.                         *)
LEMMA StillStep ==
  ASSUME CalledBefore, LoginInv, LoginInv', Attends, Around, UNCHANGED <<calls, logins, alarmAt, jobs>>,
         NEW r, Writes(Alarm, r), \A id \in prompts \ prompts' : Prompted(id)'
  PROVE  Attends'
<1>h. PICK h : h = Alarm
  OBVIOUS
<1>k. PICK k : k = calls[h]
  OBVIOUS
<1>0. h \in Handlers /\ ~Free(h) => IsCall(k) /\ Awaits(k)
  BY <1>k, RoleOf DEF Attends, HandlersAwait
<1>1. h \in Handlers /\ calls'[h] = k /\ \A g \in Handlers : g /= h => calls'[g] = calls[g]
  BY <1>h, <1>k DEF Handlers
<1>2. \A id : h = Alarm /\ AlarmHas(id) /\ Waiting(requests', id) => HasAlarm(h, k, id)
  BY <1>h, <1>k DEF AlarmHas, HasAlarm, Signing
<1>3. Moves(h, k) /\ SigninsGo /\ Reopens(h) /\ WaitersGo(h, k)
  BY <1>1, <1>2, <1>h, WritesGo
<1>4. PromptsGo(h)
  BY <1>1, <1>k DEF PromptsGo, Prompted, Free
<1>5. JobsGo(h)
  BY <1>1, <1>k DEF JobsGo, Taken, Free
<1>6. \A id : (Prompted(id) => Prompted(id)') /\ (Taken(id) => Taken(id)')
  BY <1>3, <1>4, <1>5, PromptedStays, TakenStays
<1>7. HandGoes(h, k)
  <2>1. k.op /= "none" <=> ~Free(h)
    BY <1>k DEF Free
  <2>2. ASSUME ~Free(h), NEW q \in Hand(k) PROVE (q.id = 0 \/ Stem(q)) /\ (q.status /= "pending" => q.id \in settled')
    <3>1. Copy(q)
      BY <1>1, <1>k, <2>2 DEF Copy, Held
    <3> QED BY <1>3, <3>1, StemOf DEF Attends, EndsSettle, Moves, RowsGo
  <2>3. ASSUME ~Free(h) PROVE Awaits(k)'
    BY <1>0, <1>1, <1>3, <1>6, <2>3 DEF Awaits, SigninsGo
  <2> QED BY <1>k, <2>1, <2>2, <2>3 DEF HandGoes
<1>8. Leaves(h, k)
  BY <1>k DEF Leaves, Signing
<1> QED BY <1>3, <1>4, <1>5, <1>7, <1>8, StepKeeps DEF StepOf

LEMMA AnswerErrorAttends ==
  ASSUME CalledBefore, LoginInv, LoginInv', Attends, AnswerError
  PROVE  Attends'
<1>1. PICK id \in DOMAIN requests :
        /\ prompts' = prompts \ {id}
        /\ IF Pending(requests[id], now) THEN SetRequests(Put(requests, Failed(requests[id])))
           ELSE UNCHANGED <<requests, settled>>
  BY DEF AnswerError
<1>q. PICK q : q = requests[id]
  OBVIOUS
<1>r. PICK r : r = Failed(q)
  OBVIOUS
<1>2. IsRequest(q) /\ Copy(q) /\ q.id = id /\ id /= 0
  BY <1>q DEF CalledBefore, Requests, LoginInv, Named, Copy, Attends, IdsGiven
<1>3. r.id = id /\ r.made = q.made /\ r.asked = q.asked /\ r.status /= "pending"
  BY <1>2, <1>r DEF IsRequest, Failed
<1>4. Stem(r) /\ ~WaitsFor(r)
  <2>1. Stem(q)
    BY <1>2, StemOf
  <2> QED BY <1>2, <1>3, <2>1, StemLike DEF WaitsFor
<1>5. Writes(Alarm, r)
  BY <1>1, <1>2, <1>3, <1>4, <1>q, <1>r DEF Writes
<1>6. Around /\ UNCHANGED <<calls, logins, alarmAt, jobs>>
  BY DEF AnswerError, Around
<1>7. RowsGo
  BY <1>3, <1>4, <1>5, <1>2, <1>6, SameRows, PutRows DEF Writes
<1>8. Prompted(id)'
  <2>1. CASE ~Pending(q, now)
    <3>1. Over(id)
      BY <1>2, <2>1, CopyOver DEF CalledBefore
    <3> QED BY <1>7, <3>1, OverStays DEF Prompted
  <2>2. CASE SetRequests(Put(requests, r))
    <3>1. id \in settled'
      BY <1>3, <2>2 DEF SetRequests, Put
    <3> QED BY <3>1 DEF Prompted, Over
  <2> QED BY <1>1, <1>q, <1>r, <2>1, <2>2
<1>9. \A i \in prompts \ prompts' : i = id
  BY <1>1
<1> QED BY <1>5, <1>6, <1>8, <1>9, StillStep

LEMMA StillAttends ==
  ASSUME CalledBefore, LoginInv, LoginInv', Attends, Edit \/ UNCHANGED vars
  PROVE  Attends'
<1>1. UNCHANGED <<now, requests, pending, alarmAt, calls, jobs, prompts, numbered, crashes, logins, settled>>
  BY DEF Edit, vars, store, outside
<1>2. Writes(Alarm, NoRequest) /\ Around
  BY <1>1 DEF Writes, Around
<1> QED BY <1>1, <1>2, StillStep

(* Time only ends requests.                                                *)
LEMMA TickAttends ==
  ASSUME CalledBefore, LoginInv, TypeInv, Attends, Tick
  PROVE  Attends'
<1>1. /\ now' = now + 1 /\ now \in Nat
      /\ UNCHANGED <<requests, pending, alarmAt, calls, jobs, prompts, numbered, logins, settled>>
  BY DEF Tick, store, outside, CalledBefore
<1>2. \A r : IsRequest(r) /\ now >= r.made + Timeout => now' >= r.made + Timeout
  BY <1>1, TimesAssumption DEF IsRequest
<1>3. \A id : Over(id) => Over(id)'
  BY <1>1, <1>2 DEF Over, CalledBefore, Requests
<1>4. \A r : (Held(r)' <=> Held(r)) /\ (Copy(r)' <=> Copy(r))
  BY <1>1 DEF Held, Copy, Free
<1>5. \A id : (Prompted(id) => Prompted(id)') /\ (Taken(id) => Taken(id)')
  <2>1. \A id : Prompted(id) => Prompted(id)'
    BY <1>1, <1>3 DEF Prompted, Free
  <2> QED BY <1>1, <2>1 DEF Taken, Free
<1>6. /\ \A id : (AlarmHas(id) => AlarmHas(id)') /\ (SignsFor(id) => SignsFor(id)')
      /\ \A id : Signins(id)' = Signins(id)
  BY <1>1 DEF AlarmHas, SignsFor, Signing, Free, Signins
<1>7. \A due \in Nat : Timely(due) => Timely(due)'
  BY <1>1 DEF Timely, TypeInv
<1>8. OneMade' /\ EndsSettle' /\ IdsGiven' /\ AskedPrompted'
  BY <1>1, <1>4, <1>5 DEF Attends, OneMade, EndsSettle, IdsGiven, AskedPrompted
<1>9. HeldListed'
  <2> SUFFICES ASSUME NEW r, Held(r), r.id /= 0, r.id \notin DOMAIN requests PROVE now' >= r.made + Timeout
    BY <1>1, <1>4 DEF HeldListed
  <2>1. IsRequest(r)
    BY RoleOf DEF Held
  <2> QED BY <1>2, <2>1 DEF Attends, HeldListed
<1>10. OnlyPending' /\ JobsKnown' /\ WaitsOpen' /\ ReopensSigned'
  BY <1>1, <1>3, <1>6 DEF Attends, OnlyPending, JobsKnown, WaitsOpen, ReopensSigned, Waiting, Free
<1>11. HandlersAwait'
  <2> SUFFICES ASSUME NEW g \in Handlers, ~Free(g)' PROVE Awaits(calls[g])'
    BY DEF HandlersAwait
  <2>c. PICK c : c = calls[g]
    OBVIOUS
  <2>1. Awaits(c) /\ calls'[g] = c
    BY <1>1, <2>c DEF Free, Attends, HandlersAwait
  <2>2. Awaits(c)'
    BY <1>5, <1>6, <2>1 DEF Awaits
  <2> QED BY <2>1, <2>2 DEF Awaits
<1>12. Followed'
  <2> SUFFICES ASSUME NEW id \in DOMAIN requests, ~Over(id)'
               PROVE  IF Waiting(requests, id) THEN Timely(requests[id].due)' \/ AlarmHas(id)'
                      ELSE Taken(id)' \/ SignsFor(id)'
    BY <1>1 DEF Followed, Waiting
  <2>d. PICK due : due = requests[id].due
    OBVIOUS
  <2>1. ~Over(id) /\ due \in Nat
    BY <1>3, <2>d, TimesAssumption, ScenariosAssumption DEF TypeInv, AllSound, Sound
  <2>2. Timely(due) => Timely(requests[id].due)'
    BY <1>1, <1>7, <2>1, <2>d DEF Timely
  <2> QED BY <1>5, <1>6, <2>1, <2>2, <2>d DEF Attends, Followed
<1> QED BY <1>8, <1>9, <1>10, <1>11, <1>12 DEF Attends

LEMMA InitAttends == Init => Attends
<1> SUFFICES ASSUME Init PROVE Attends
  OBVIOUS
<1>1. /\ DOMAIN requests = {} /\ jobs = {} /\ settled = {} /\ \A h \in Handlers : Free(h)
  BY DEF Init, Free, Idle
<1>2. \A r : ~Copy(r) /\ ~Held(r)
  BY <1>1 DEF Copy, Held
<1>3. OneMade /\ HeldListed /\ EndsSettle /\ IdsGiven /\ OnlyPending /\ AskedPrompted
  BY <1>1, <1>2 DEF OneMade, HeldListed, EndsSettle, IdsGiven, OnlyPending, AskedPrompted
<1>4. HandlersAwait /\ JobsKnown /\ WaitsOpen /\ ReopensSigned /\ Followed
  BY <1>1 DEF HandlersAwait, JobsKnown, WaitsOpen, ReopensSigned, Followed, Waiting
<1> QED BY <1>3, <1>4 DEF Attends
-----------------------------------------------------------------------------
(* The alarm is set for when the first wait is over, or earlier.           *)
LEMMA RescheduleTimely ==
  ASSUME CalledBefore, TypeInv, TypeInv', UNCHANGED <<now, scenario>>, NEW rs, requests' = rs,
         NEW d \in Row, Reschedule(rs, d), NEW id, Waiting(rs, id)
  PROVE  TimelyNext(rs[id].due)
<1> DEFINE due == WaitsDue(rs) \cup {rs[i].made + Keep : i \in DOMAIN rs}
                  \cup (IF d.ttl /\ d.vaultAt /= 0 /\ d.vault /= 0 THEN {d.vaultAt + Ttl} ELSE {})
           first == CHOOSE t \in due : \A u \in due : t <= u
<1>0. now \in Nat /\ now >= 1 /\ scenario.time \in Nat /\ Wait \in Nat /\ Keep \in Nat /\ Ttl \in Nat
  BY TimesAssumption, ScenariosAssumption DEF CalledBefore, TypeInv
<1>1. \A i \in DOMAIN rs : rs[i].made \in Nat /\ rs[i].due \in Nat
  BY <1>0 DEF TypeInv, AllSound, Sound
<1>2. WaitsDue(rs) \subseteq Nat /\ rs[id].due \in WaitsDue(rs)
  BY <1>1 DEF WaitsDue, Waiting
<1>3. d.vaultAt + Ttl \in Nat
  BY <1>0 DEF Row
<1>4. due \subseteq Nat /\ rs[id].due \in due
  BY <1>0, <1>1, <1>2, <1>3
<1>5. alarmAt' = IF due = {} THEN 0 ELSE IF first > now THEN first ELSE now + 1
  BY DEF Reschedule
<1> HIDE DEF due
<1>6. first \in due /\ \A u \in due : first <= u
  BY <1>4, FirstOfNat
<1>7. first \in Nat /\ first <= rs[id].due
  BY <1>4, <1>6
<1>8. alarmAt' = IF first > now THEN first ELSE now + 1
  BY <1>4, <1>5
<1> HIDE DEF first
<1> QED BY <1>0, <1>7, <1>8 DEF TimelyNext

(* A handler that ends and sets the alarm anew.                            *)
LEMMA RescheduledStep ==
  ASSUME CalledBefore, LoginInv, LoginInv', TypeInv, TypeInv', Attends,
         UNCHANGED <<logins, jobs, prompts, scenario>>, NEW h \in Handlers, Ends(h),
         NEW d \in Row, NEW rs, requests' = rs, Reschedule(rs, d), RowsGo, Reopens(h),
         Free(h) \/ (calls[h].await /= "verify" /\ calls[h].op /= "done"),
         \A id : Waiting(rs, id) => id \notin settled,
         Signing(h) => \A q \in Hand(calls[h]) : Taken(q.id)'
  PROVE  Attends'
<1>1. /\ calls'[h] = Idle /\ \A g \in Handlers : g /= h => calls'[g] = calls[g]
      /\ Idle.op = "none"
  BY DEF Ends, Idle, CalledBefore, Underway
<1>2. Moves(h, Idle) /\ HandGoes(h, Idle) /\ Leaves(h, Idle)
  BY <1>1 DEF Moves, HandGoes, Leaves
<1>3. PromptsGo(h) /\ JobsGo(h)
  BY DEF PromptsGo, JobsGo, FallsBack
<1>4. SigninsGo
  BY DEF SigninsGo, Signins, Attends, JobsKnown
<1>5. WaitersGo(h, Idle)
  <2>1. now' = now
    BY DEF RowsGo
  <2>2. \A id : Waiting(rs, id) => TimelyNext(rs[id].due)
    BY <2>1, RescheduleTimely
  <2> QED BY <2>2 DEF WaitersGo
<1> QED BY <1>2, <1>3, <1>4, <1>5, StepKeeps DEF StepOf

(* What a signing handler has in hand is a request, and which.             *)
LEMMA SignerHand ==
  ASSUME CalledBefore, LoginInv, TypeInv, Attends, NEW h \in Handlers, ~Free(h),
         calls[h].await \in {"login", "taken", "ask", "asked"}
  PROVE  /\ IsCall(calls[h]) /\ Role(h, calls[h]) /\ Awaits(calls[h]) /\ calls[h].doc \in Row
         /\ Copy(calls[h].req) /\ IsRequest(calls[h].req) /\ calls[h].req.id /= 0
         /\ Stem(calls[h].req)
<1>1. IsCall(calls[h]) /\ Role(h, calls[h]) /\ Shaped(calls[h]) /\ IsRequest(calls[h].req)
  BY HandShaped
<1>2. Awaits(calls[h]) /\ calls[h].req.id /= 0
  BY DEF Attends, HandlersAwait, Awaits, OnRequest
<1>3. Copy(calls[h].req)
  BY DEF Copy, Held, Hand
<1> QED BY <1>1, <1>2, <1>3, StemOf DEF Shaped

LEMMA SetSame ==
  ASSUME LoginInv, Attends, SetRequests(requests)
  PROVE  UNCHANGED <<requests, settled>>
<1> SUFFICES ASSUME NEW id \in DOMAIN requests, requests[id].status /= "pending" PROVE id \in settled
  BY DEF SetRequests
<1>1. Copy(requests[id]) /\ requests[id].id = id
  BY DEF Copy, LoginInv, Named
<1> QED BY <1>1 DEF Attends, EndsSettle

(* Its maker leaves a request finished, signed in for, or to the phone.    *)
LEMMA SessionEndsAttends ==
  ASSUME CalledBefore, LoginInv, LoginInv', TypeInv, TypeInv', Attends, NEW h \in Handlers, ~Free(h),
         calls[h].await \in {"login", "taken", "ask", "asked"}, calls[h].op = "session",
         NEW r, SessionEnds(h, calls[h], r), r.id = calls[h].req.id, Stem(r),
         r.status /= "pending" \/ Taken(r.id), WaitsFor(r) => r.id \notin settled \/ Signins(r.id) < 1,
         crashes = 0, UNCHANGED <<now, pending, outside, numbered, crashes>>
  PROVE  Attends'
<1>k. PICK k : k = calls[h]
  OBVIOUS
<1>id. PICK id : id = r.id
  OBVIOUS
<1>1. IsCall(k) /\ Role(h, k) /\ k.doc \in Row /\ id /= 0 /\ k.req.id = id
  BY <1>k, <1>id, SignerHand
<1>rs. PICK rs : rs = Kept(r, k.at)
  OBVIOUS
<1>2. requests' = rs /\ SetRequests(rs) /\ Reschedule(rs, k.doc) /\ Ends(h)
  BY <1>k, <1>rs DEF SessionEnds, SetRequests
<1>3. Around /\ UNCHANGED <<logins, jobs, prompts, scenario>>
  BY DEF Around, outside
<1>4. Signins(id) \in Nat
  BY DEF LoginInv, Named, Signins
<1>5. CASE ~Stored(requests, id, k.at)
  <2>1. requests' = requests /\ settled' = settled
    <3>1. rs = requests
      BY <1>5, <1>rs, <1>id DEF Kept
    <3> QED BY <1>2, <3>1, SetSame
  <2>2. Over(id)
    BY <1>1, <1>5, NotStoredOver DEF IsCall
  <2>3. RowsGo /\ Reopens(h)
    BY <1>3, <2>1, SameRows DEF Reopens
  <2>4. Taken(id)'
    BY <2>2, <2>3, OverStays DEF Taken, Prompted
  <2>5. \A q \in Hand(k) : q.id = id
    BY <1>1, <1>k DEF Role, MakesOne, Hand
  <2>6. \A i : Waiting(rs, i) => i \notin settled
    BY <1>2, <2>1 DEF Attends, WaitsOpen
  <2>7. k.await /= "verify" /\ k.op /= "done"
    BY <1>k
  <2> QED BY <1>1, <1>2, <1>3, <1>k, <2>3, <2>4, <2>5, <2>6, <2>7, RescheduledStep
<1>6. CASE Stored(requests, id, k.at)
  <2>1. rs = Put(requests, r) /\ id \in DOMAIN requests /\ requests[id].status = "pending"
    BY <1>6, <1>id, <1>rs DEF Kept, Stored, Pending
  <2>2. RowsGo
    BY <1>1, <1>2, <1>3, <1>id, <2>1, PutRows
  <2>3. Reopens(h)
    BY <1>2, <1>id, <2>1 DEF Reopens, Put
  <2>4. Taken(id)'
    <3>1. CASE r.status /= "pending"
      <4>1. id \in settled'
        BY <1>2, <1>id, <2>1, <3>1 DEF SetRequests, Put
      <4> QED BY <4>1 DEF Taken, Prompted, Over
    <3>2. CASE Taken(id)
      <4>1. /\ calls'[h] = Idle /\ \A g \in Handlers : g /= h => calls'[g] = calls[g]
        BY <1>2 DEF Ends, CalledBefore, Underway
      <4>2. Moves(h, Idle)
        BY <2>2, <4>1 DEF Moves
      <4>3. PromptsGo(h) /\ JobsGo(h)
        BY <1>3 DEF PromptsGo, JobsGo, FallsBack
      <4> QED BY <3>2, <4>2, <4>3, TakenStays
    <3> QED BY <1>id, <3>1, <3>2
  <2>5. \A q \in Hand(k) : q.id = id
    BY <1>1, <1>k DEF Role, MakesOne, Hand
  <2>6. \A i : Waiting(rs, i) => i \notin settled
    <3> SUFFICES ASSUME NEW i, Waiting(rs, i) PROVE i \notin settled
      OBVIOUS
    <3>1. CASE i = id
      <4>1. WaitsFor(r)
        BY <1>id, <2>1, <3>1 DEF Put, Waiting, WaitsFor
      <4>2. MakesRequest(k)
        BY <1>k DEF MakesRequest, Signs
      <4>3. id \in settled => Signins(id) >= 1
        BY <1>1, <1>k, <2>1, <4>2 DEF Attends, ReopensSigned
      <4> QED BY <1>4, <1>id, <3>1, <4>1, <4>3
    <3>2. CASE i /= id
      <4>1. Waiting(requests, i)
        BY <1>id, <2>1, <3>2 DEF Put, Waiting
      <4> QED BY <4>1 DEF Attends, WaitsOpen
    <3> QED BY <3>1, <3>2
  <2>7. k.await /= "verify" /\ k.op /= "done"
    BY <1>k
  <2> QED BY <1>1, <1>2, <1>3, <1>k, <2>2, <2>3, <2>4, <2>5, <2>6, <2>7, RescheduledStep
<1> QED BY <1>5, <1>6

LEMMA BeginAttends ==
  ASSUME CalledBefore, LoginInv, LoginInv', TypeInv, TypeInv', Attends, crashes = 0,
         NEW h \in Handlers, ~Free(h), NEW ok \in BOOLEAN,
         \/ /\ calls[h].await \in (IF ok THEN {"taken"} ELSE {"taken", "login"})
            /\ BeginLogin(h, calls[h], ok)
         \/ /\ calls[h].await \in (IF ok THEN {"asked"} ELSE {"asked", "ask"})
            /\ BeginAsk(h, calls[h], ok),
         UNCHANGED <<now, pending, outside, numbered, crashes>>
  PROVE  Attends'
<1>k. PICK k : k = calls[h]
  OBVIOUS
<1>id. PICK id : id = k.req.id
  OBVIOUS
<1>s. PICK s : s = [k.req EXCEPT !.started = TRUE]
  OBVIOUS
<1>f. PICK f : f = Failed(k.req)
  OBVIOUS
<1>a. PICK a : a = [k.req EXCEPT !.asked = TRUE, !.due = IF k.plan = "phone_first" THEN k.at + Wait ELSE 0]
  OBVIOUS
<1>0. k.op = "session" /\ k.await \in {"login", "taken", "ask", "asked"}
  BY <1>k DEF BeginLogin, BeginAsk
<1>1. IsCall(k) /\ Role(h, k) /\ Awaits(k) /\ IsRequest(k.req) /\ Stem(k.req)
  BY <1>0, <1>k, SignerHand
<1>2. /\ s.id = id /\ s.made = k.req.made /\ s.asked = k.req.asked /\ ~WaitsFor(s)
      /\ f.id = id /\ f.made = k.req.made /\ f.asked = k.req.asked /\ f.status /= "pending" /\ ~WaitsFor(f)
      /\ a.id = id /\ a.made = k.req.made /\ (k.plan /= "phone_first" => ~WaitsFor(a))
  BY <1>1, <1>id, <1>s, <1>f, <1>a DEF IsRequest, Failed, WaitsFor
<1>3. Stem(s) /\ Stem(f) /\ (Prompted(id) => Stem(a))
  BY <1>1, <1>2, <1>id, StemLike
<1>4. /\ k.await = "taken" => Taken(id)
      /\ k.await = "asked" => Prompted(id) /\ Taken(id)
  BY <1>1, <1>id DEF Awaits, Taken
<1>5. \/ k.await = "taken" /\ SessionEnds(h, k, s)
      \/ SessionEnds(h, k, f)
      \/ k.await = "asked" /\ SessionEnds(h, k, a)
      \/ \E what \in {"ask", "login"} : Await(h, k, what) /\ UNCHANGED <<requests, alarmAt, settled>>
  BY <1>k, <1>s, <1>f, <1>a DEF BeginLogin, BeginAsk
<1>6. CASE k.await = "taken" /\ SessionEnds(h, k, s)
  BY <1>0, <1>2, <1>3, <1>4, <1>6, <1>id, <1>k, SessionEndsAttends
<1>7. CASE SessionEnds(h, k, f)
  BY <1>0, <1>2, <1>3, <1>7, <1>id, <1>k, SessionEndsAttends
<1>8. CASE k.await = "asked" /\ SessionEnds(h, k, a)
  <2>1. WaitsFor(a) => Signins(id) < 1
    <3>1. WaitsFor(a) => k.req \in Unsigned(k)
      BY <1>2, <1>8 DEF Unsigned
    <3>2. Signing(h)
      BY <1>0, <1>k DEF Signing, Signs
    <3>3. Signins(id) \in Nat
      BY DEF LoginInv, Named, Signins
    <3> QED BY <1>id, <1>k, <3>1, <3>2, <3>3 DEF LoginInv, NotSigned
  <2> QED BY <1>0, <1>2, <1>3, <1>4, <1>8, <1>id, <1>k, <2>1, SessionEndsAttends
<1>9. ASSUME NEW what \in {"ask", "login"}, Await(h, k, what), UNCHANGED <<requests, alarmAt, settled>>
      PROVE  Attends'
  <2>1. Around /\ UNCHANGED <<jobs, prompts, logins>>
    BY DEF Around, outside
  <2>2. SigninsGo
    BY <2>1 DEF SigninsGo, Signins, Attends, JobsKnown
  <2> QED BY <1>0, <1>9, <1>k, <2>1, <2>2, SignerStep
<1> QED BY <1>5, <1>6, <1>7, <1>8, <1>9

LEMMA AppLoginAttends ==
  ASSUME CalledBefore, LoginInv, LoginInv', TypeInv, Attends, NEW h \in Handlers, ~Free(h),
         NEW ok \in BOOLEAN, calls[h].await \in (IF ok THEN {"taken"} ELSE {"taken", "login"}),
         AppLogin(h, calls[h], ok), UNCHANGED <<now, pending, outside, numbered, crashes>>
  PROVE  Attends'
<1>k. PICK k : k = calls[h]
  OBVIOUS
<1>id. PICK id : id = k.req.id
  OBVIOUS
<1>s. PICK s : s = [k.req EXCEPT !.started = TRUE]
  OBVIOUS
<1>f. PICK f : f = Failed(k.req)
  OBVIOUS
<1>0. k.op = "app" /\ k.await \in {"login", "taken", "ask", "asked"}
  BY <1>k DEF AppLogin
<1>1. IsCall(k) /\ Role(h, k) /\ Awaits(k) /\ IsRequest(k.req) /\ Stem(k.req) /\ id /= 0
  BY <1>0, <1>id, <1>k, SignerHand
<1>2. /\ s.id = id /\ s.made = k.req.made /\ s.asked = k.req.asked /\ ~WaitsFor(s)
      /\ s.status = k.req.status
      /\ f.id = id /\ f.made = k.req.made /\ f.asked = k.req.asked /\ f.status /= "pending" /\ ~WaitsFor(f)
  BY <1>1, <1>id, <1>s, <1>f DEF IsRequest, Failed, WaitsFor
<1>3. Stem(s) /\ Stem(f)
  BY <1>1, <1>2, <1>id, StemLike
<1>4. /\ Around /\ UNCHANGED <<logins, alarmAt, jobs, prompts>> /\ Ends(h)
  BY <1>k DEF Around, outside, AppLogin, AppEnds
<1>5. \/ ok /\ SetRequests(Kept(s, k.at))
      \/ SetRequests(Put(requests, f))
  BY <1>k, <1>s, <1>f DEF AppLogin, AppEnds
<1>6. PromptsGo(h) /\ JobsGo(h)
  BY <1>0, <1>4, <1>k DEF PromptsGo, JobsGo, FallsBack
<1>7. \A q \in Hand(k) : q.id = id
  BY <1>0, <1>1, <1>id DEF Role, MakesOne, Hand
<1>8. ASSUME NEW r, Writes(h, r), Over(id) \/ Taken(id) \/ id \in settled' PROVE Attends'
  <2>1. /\ calls'[h] = Idle /\ \A g \in Handlers : g /= h => calls'[g] = calls[g]
    BY <1>4 DEF Ends, CalledBefore, Underway
  <2>2. \A i : ~(h = Alarm /\ AlarmHas(i))
    BY <1>0, <1>k DEF AlarmHas
  <2>3. Moves(h, Idle)
    BY <1>4, <1>8, <2>1, <2>2, WritesGo
  <2>4. Taken(id)'
    <3>1. CASE Over(id) \/ Taken(id)
      BY <1>6, <2>3, <3>1, TakenStays DEF Taken, Prompted
    <3>2. CASE id \in settled'
      BY <3>2 DEF Taken, Prompted, Over
    <3> QED BY <1>8, <3>1, <3>2
  <2>5. calls[h].op /= "alarm" /\ \A q \in Hand(calls[h]) : Taken(q.id)'
    BY <1>0, <1>7, <1>k, <2>4
  <2> QED BY <1>4, <1>6, <1>8, <2>5, EndsStep
<1>9. CASE ok /\ SetRequests(Kept(s, k.at))
  <2>1. Taken(id)
    BY <1>1, <1>9, <1>id, <1>k DEF Awaits
  <2>2. CASE Stored(requests, id, k.at)
    <3>1. SetRequests(Put(requests, s)) /\ id \in DOMAIN requests /\ requests[id].status = "pending"
      BY <1>2, <1>9, <2>2 DEF Kept, Stored, Pending
    <3>2. Writes(h, s)
      BY <1>1, <1>2, <1>3, <3>1 DEF Writes
    <3> QED BY <1>8, <2>1, <3>2
  <2>3. CASE ~Stored(requests, id, k.at)
    <3>1. SetRequests(requests)
      BY <1>2, <1>9, <2>3 DEF Kept
    <3>2. Writes(h, s)
      BY <3>1, SetSame DEF Writes
    <3> QED BY <1>8, <2>1, <3>2
  <2> QED BY <2>2, <2>3
<1>10. CASE SetRequests(Put(requests, f))
  <2>1. Writes(h, f)
    BY <1>1, <1>2, <1>3, <1>10 DEF Writes
  <2>2. id \in settled'
    BY <1>2, <1>10 DEF SetRequests, Put
  <2> QED BY <1>8, <2>1, <2>2
<1> QED BY <1>5, <1>9, <1>10

(* A phone was asked about whatever the alarm has in hand.                 *)
LEMMA AlarmLoginAttends ==
  ASSUME CalledBefore, LoginInv, LoginInv', TypeInv, TypeInv', Attends, NEW h \in Handlers, ~Free(h),
         NEW ok, calls[h].await \in {"taken", "login"}, AlarmLogin(calls[h], ok),
         UNCHANGED <<now, pending, outside, numbered, crashes>>
  PROVE  Attends'
<1>k. PICK k : k = calls[h]
  OBVIOUS
<1>id. PICK id : id = k.req.id
  OBVIOUS
<1>r. PICK r : r = IF ok THEN [k.req EXCEPT !.started = TRUE] ELSE [k.req EXCEPT !.due = 0]
  OBVIOUS
<1>rs. PICK rs : rs = Put(requests, r)
  OBVIOUS
<1>0. k.op = "alarm" /\ k.await \in {"login", "taken", "ask", "asked"}
  BY <1>k DEF AlarmLogin
<1>1. IsCall(k) /\ Role(h, k) /\ Awaits(k) /\ IsRequest(k.req) /\ Stem(k.req) /\ id /= 0 /\ k.doc \in Row
  BY <1>0, <1>id, <1>k, SignerHand
<1>2. h = Alarm /\ Signs(k) /\ Signing(h)
  BY <1>0, <1>1, <1>k DEF Role, MakesOne, Signing
<1>3. r.id = id /\ r.made = k.req.made /\ r.asked = k.req.asked /\ ~WaitsFor(r)
  BY <1>1, <1>id, <1>r DEF IsRequest, WaitsFor
<1>4. Stem(r)
  BY <1>1, <1>3, <1>id, StemLike
<1>5. Around /\ UNCHANGED <<logins, jobs, prompts, scenario>>
  BY DEF Around, outside
<1>6. k.req \in Hand(calls[h]) /\ k.req.id = r.id
  BY <1>3, <1>id, <1>k DEF Hand
<1>7. ASSUME SetRequests(rs) PROVE Writes(h, r) /\ RowsGo
  <2>1. Writes(h, r)
    BY <1>0, <1>1, <1>2, <1>3, <1>4, <1>6, <1>7, <1>k, <1>rs DEF Writes
  <2> QED BY <1>1, <1>3, <1>4, <1>5, <1>7, <1>rs, <2>1, PutRows
<1>8. PromptsGo(h) /\ JobsGo(h)
  BY <1>0, <1>5, <1>k DEF PromptsGo, JobsGo, FallsBack
<1>9. \A q \in Hand(k) : Taken(q.id)
  <2> SUFFICES ASSUME NEW q \in Hand(k) PROVE Taken(q.id)
    OBVIOUS
  <2>1. q.asked /\ Copy(q)
    BY <1>0, <1>1, <1>k DEF Awaits, Copy, Held
  <2> QED BY <2>1 DEF Attends, AskedPrompted, Taken
<1>10. \/ k.todo = {} /\ AlarmEnds(k, rs)
       \/ /\ \E next \in k.todo :
               Await(Alarm, [k EXCEPT !.req = next, !.todo = @ \ {next}], "login")
          /\ SetRequests(rs) /\ alarmAt' = alarmAt
  BY <1>k, <1>r, <1>rs DEF AlarmLogin
<1>11. CASE k.todo = {} /\ AlarmEnds(k, rs)
  <2>1. PICK d \in Row : SetRequests(rs) /\ Reschedule(rs, d) /\ Ends(h)
    <3>1. NoVault(k.doc) \in Row
      BY <1>1, RowKeeps DEF IsCall
    <3>2. [k EXCEPT !.doc = NoVault(@)].doc = NoVault(k.doc)
      BY <1>1 DEF IsCall
    <3> QED BY <1>1, <1>2, <1>11, <3>1, <3>2 DEF AlarmEnds
  <2>2. RowsGo /\ requests' = rs
    BY <1>7, <2>1 DEF SetRequests
  <2>3. Reopens(h)
    BY <1>0, <1>2, <1>6, <1>k, <1>rs, <2>2 DEF Reopens, Put
  <2>4. /\ calls'[h] = Idle /\ \A g \in Handlers : g /= h => calls'[g] = calls[g]
    BY <2>1 DEF Ends, CalledBefore, Underway
  <2>5. Moves(h, Idle)
    BY <2>2, <2>4 DEF Moves
  <2>6. \A i : Taken(i) => Taken(i)'
    BY <1>8, <2>5, TakenStays
  <2>7. \A i : Waiting(rs, i) => i \notin settled
    <3>1. \A i : Waiting(rs, i) => Waiting(requests, i)
      BY <1>3, <1>rs DEF Put, Waiting, WaitsFor
    <3> QED BY <3>1 DEF Attends, WaitsOpen
  <2>8. calls[h].await /= "verify" /\ calls[h].op /= "done" /\ \A q \in Hand(calls[h]) : Taken(q.id)'
    BY <1>0, <1>9, <1>k, <2>6
  <2> QED BY <1>5, <2>1, <2>2, <2>3, <2>7, <2>8, RescheduledStep
<1>12. ASSUME NEW next \in k.todo, SetRequests(rs), alarmAt' = alarmAt,
              Await(Alarm, [k EXCEPT !.req = next, !.todo = @ \ {next}], "login")
       PROVE  Attends'
  <2>k1. PICK k1 : k1 = [[k EXCEPT !.req = next, !.todo = @ \ {next}] EXCEPT !.await = "login"]
    OBVIOUS
  <2>1. k1.op = "alarm" /\ k1.req = next /\ k1.todo = k.todo \ {next} /\ k1.await = "login"
    BY <1>0, <1>1, <2>k1 DEF IsCall
  <2>2. Signs(k1) /\ k1.op /= "none" /\ Hand(k1) = k.todo
    BY <1>12, <2>1 DEF Signs, Hand
  <2>3. calls'[h] = k1 /\ \A g \in Handlers : g /= h => calls'[g] = calls[g]
    BY <1>2, <1>12, <2>k1 DEF Await, CalledBefore, Underway
  <2>4. \A i : h = Alarm /\ AlarmHas(i) /\ Waiting(requests', i) => HasAlarm(h, k1, i)
    <3> SUFFICES ASSUME NEW i, AlarmHas(i), Waiting(requests', i) PROVE HasAlarm(h, k1, i)
      OBVIOUS
    <3>1. PICK q \in Hand(k) : q.id = i
      BY <1>2, <1>k DEF AlarmHas
    <3>2. i /= id
      BY <1>3, <1>12, <1>rs DEF SetRequests, Put, Waiting, WaitsFor
    <3>3. q \in k.todo
      BY <1>id, <3>1, <3>2 DEF Hand
    <3> QED BY <1>2, <2>1, <2>2, <3>1, <3>3 DEF HasAlarm
  <2>5. Moves(h, k1) /\ SigninsGo /\ Reopens(h) /\ WaitersGo(h, k1)
    BY <1>5, <1>7, <1>12, <2>3, <2>4, WritesGo
  <2>6. \A i : Taken(i) => Taken(i)'
    BY <1>8, <2>5, TakenStays
  <2>7. HandGoes(h, k1)
    <3>1. ASSUME NEW q \in k.todo PROVE Stem(q) /\ q.id /= 0 /\ q.asked /\ (q.status /= "pending" => q.id \in settled')
      <4>1. Copy(q) /\ q.id /= 0 /\ q.asked
        BY <1>0, <1>1, <1>k, <3>1 DEF Awaits, Copy, Held, Hand
      <4> QED BY <2>5, <4>1, StemOf DEF Attends, EndsSettle, Moves, RowsGo
    <3>2. Awaits(k1)'
      BY <1>12, <2>1, <2>2, <3>1 DEF Awaits, FallsBack
    <3>3. ~MakesRequest(k1)
      BY <2>1 DEF MakesRequest
    <3> QED BY <2>2, <3>1, <3>2, <3>3 DEF HandGoes
  <2>8. Leaves(h, k1)
    BY <1>9, <1>k, <2>6 DEF Leaves
  <2> QED BY <1>8, <2>5, <2>7, <2>8, StepKeeps DEF StepOf
<1> QED BY <1>10, <1>11, <1>12

(* A request that waits is the one that may be pending.                    *)
LEMMA WaitersPending ==
  ASSUME CalledBefore, LoginInv, Attends, NEW i, NEW j, Waiting(requests, i), Waiting(requests, j),
         ~Over(i), ~Over(j)
  PROVE  i = j
BY DEF Waiting, Attends, OnlyPending

(* The alarm drops what is too old, and takes what is due in hand, or has  *)
(* it wait no more.                                                        *)
LEMMA AlarmRingsAttends ==
  ASSUME CalledBefore, LoginInv, LoginInv', TypeInv, TypeInv', Attends, AlarmRings
  PROVE  Attends'
<1>k. PICK k : k = Loaded("alarm")
  OBVIOUS
<1>young. PICK young :
     young = [id \in {id \in DOMAIN requests : now < requests[id].made + Keep} |-> requests[id]]
  OBVIOUS
<1>due. PICK due : due = DueNow(young, now)
  OBVIOUS
<1>quiet. PICK quiet :
     quiet = [id \in DOMAIN young |->
                IF young[id] \in due THEN [young[id] EXCEPT !.due = 0] ELSE young[id]]
  OBVIOUS
<1>1. /\ Alarm \in Handlers /\ Free(Alarm) /\ Around
      /\ UNCHANGED <<logins, jobs, prompts, scenario>>
      /\ k.op = "alarm" /\ k.await = "none" /\ IsCall(k) /\ k.doc \in Row
  BY <1>k, LoadedShaped DEF AlarmRings, outside, Handlers, Around, Loaded, NoCall
<1>2. \/ AlarmEnds(k, quiet)
      \/ /\ \E r \in due : Await(Alarm, [k EXCEPT !.req = r, !.todo = due \ {r}], "login")
         /\ SetRequests(young)
  BY <1>k, <1>young, <1>due, <1>quiet DEF AlarmRings
<1>3. /\ DOMAIN young = {id \in DOMAIN requests : now < requests[id].made + Keep}
      /\ \A id \in DOMAIN young : young[id] = requests[id]
  BY <1>young
<1>4. \A id \in DOMAIN requests :
        /\ Copy(requests[id]) /\ id /= 0 /\ requests[id].id = id /\ IsRequest(requests[id])
        /\ requests[id].status /= "pending" => id \in settled
        /\ requests[id].due /= 0 => requests[id].asked
  <2> SUFFICES ASSUME NEW id \in DOMAIN requests
               PROVE  /\ Copy(requests[id]) /\ id /= 0 /\ requests[id].id = id /\ IsRequest(requests[id])
                      /\ requests[id].status /= "pending" => id \in settled
                      /\ requests[id].due /= 0 => requests[id].asked
    OBVIOUS
  <2>1. Copy(requests[id]) /\ requests[id].id = id /\ IsRequest(requests[id])
    BY DEF Copy, LoginInv, Named, CalledBefore, Requests
  <2> QED BY <2>1 DEF Attends, IdsGiven, EndsSettle, LoginInv, Named, Asks
<1>5. \A id \in DOMAIN requests \ DOMAIN young : now >= requests[id].made + Timeout
  <2> SUFFICES ASSUME NEW id \in DOMAIN requests \ DOMAIN young PROVE now >= requests[id].made + Timeout
    OBVIOUS
  <2>1. ~(now < requests[id].made + Keep) /\ requests[id].made \in Nat
    BY <1>3, <1>4 DEF IsRequest
  <2> QED BY <2>1, TimesAssumption DEF CalledBefore
<1>6. ASSUME NEW rs, SetRequests(rs), DOMAIN rs = DOMAIN young,
             \A id \in DOMAIN rs : /\ rs[id].id = id /\ rs[id].made = requests[id].made
                                   /\ rs[id].asked = requests[id].asked
                                   /\ rs[id].status = requests[id].status,
             \A id : Waiting(rs, id) => Waiting(requests, id) /\ rs[id] = requests[id]
      PROVE  /\ RowsGo /\ Reopens(Alarm) /\ requests' = rs
             /\ \A id : Waiting(rs, id) => id \notin settled
  <2>1. /\ requests' = rs /\ DOMAIN rs \subseteq DOMAIN requests
        /\ settled' = settled \cup {id \in DOMAIN rs : rs[id].status /= "pending"}
    BY <1>3, <1>6 DEF SetRequests
  <2>2. \A id \in DOMAIN rs : Stem(rs[id])
    <3> SUFFICES ASSUME NEW id \in DOMAIN rs PROVE Stem(rs[id])
      OBVIOUS
    <3>1. Copy(requests[id]) /\ requests[id].id = id
      BY <1>4, <2>1
    <3> QED BY <1>6, <3>1 DEF Stem
  <2>3. RowsGo
    BY <1>1, <1>4, <1>5, <1>6, <2>1, <2>2 DEF RowsGo, Around
  <2>4. Reopens(Alarm)
    BY <1>6, <2>1 DEF Reopens
  <2>5. \A id : Waiting(rs, id) => id \notin settled
    BY <1>6 DEF Attends, WaitsOpen
  <2> QED BY <2>1, <2>3, <2>4, <2>5
<1>7. CASE AlarmEnds(k, quiet)
  <2>1. PICK d \in Row : SetRequests(quiet) /\ Reschedule(quiet, d) /\ Ends(Alarm)
    <3>1. NoVault(k.doc) \in Row
      BY <1>1, RowKeeps DEF IsCall
    <3>2. [k EXCEPT !.doc = NoVault(@)].doc = NoVault(k.doc)
      BY <1>1 DEF IsCall
    <3> QED BY <1>1, <1>7, <3>1, <3>2 DEF AlarmEnds
  <2>2. DOMAIN quiet = DOMAIN young
    BY <1>quiet
  <2>3. ASSUME NEW id \in DOMAIN quiet
        PROVE  /\ quiet[id].id = id /\ quiet[id].made = requests[id].made
               /\ quiet[id].asked = requests[id].asked /\ quiet[id].status = requests[id].status
               /\ quiet[id] = requests[id] \/ quiet[id].due = 0
    <3>1. id \in DOMAIN requests /\ young[id] = requests[id]
      BY <1>3, <2>2, <2>3
    <3>2. IsRequest(requests[id]) /\ requests[id].id = id
      BY <1>4, <3>1
    <3>3. quiet[id] = requests[id] \/ quiet[id] = [requests[id] EXCEPT !.due = 0]
      BY <1>quiet, <2>2, <2>3, <3>1
    <3> QED BY <3>2, <3>3 DEF IsRequest
  <2>4. \A id : Waiting(quiet, id) => Waiting(requests, id) /\ quiet[id] = requests[id]
    BY <1>3, <2>2, <2>3 DEF Waiting
  <2>5. /\ RowsGo /\ Reopens(Alarm) /\ requests' = quiet
        /\ \A id : Waiting(quiet, id) => id \notin settled
    BY <1>6, <2>1, <2>2, <2>3, <2>4
  <2>6. ~Signing(Alarm)
    BY <1>1 DEF Signing
  <2> QED BY <1>1, <2>1, <2>5, <2>6, RescheduledStep
<1>8. ASSUME NEW r \in due, Await(Alarm, [k EXCEPT !.req = r, !.todo = due \ {r}], "login"),
             SetRequests(young)
      PROVE  Attends'
  <2>x. PICK x : x = [[k EXCEPT !.req = r, !.todo = due \ {r}] EXCEPT !.await = "login"]
    OBVIOUS
  <2>1. x.op = "alarm" /\ x.req = r /\ x.todo = due \ {r} /\ x.await = "login"
    BY <1>1, <2>x DEF IsCall
  <2>2. Signs(x) /\ Hand(x) = due
    BY <1>8, <2>1 DEF Signs, Hand
  <2>3. calls'[Alarm] = x /\ \A g \in Handlers : g /= Alarm => calls'[g] = calls[g]
    BY <1>1, <1>8, <2>x DEF Await, CalledBefore, Underway
  <2>4. /\ RowsGo /\ Reopens(Alarm) /\ requests' = young
        /\ \A id : Waiting(young, id) => id \notin settled
    <3>1. \A id \in DOMAIN young :
            /\ young[id].id = id /\ young[id].made = requests[id].made
            /\ young[id].asked = requests[id].asked /\ young[id].status = requests[id].status
      BY <1>3, <1>4
    <3>2. \A id : Waiting(young, id) => Waiting(requests, id) /\ young[id] = requests[id]
      BY <1>3 DEF Waiting
    <3> QED BY <1>6, <1>8, <3>1, <3>2
  <2>5. \A q \in due : /\ q.id \in DOMAIN requests /\ q = requests[q.id] /\ Waiting(requests, q.id)
                       /\ Pending(q, now) /\ q.due /= 0
    <3> SUFFICES ASSUME NEW q \in due
                 PROVE  /\ q.id \in DOMAIN requests /\ q = requests[q.id] /\ Waiting(requests, q.id)
                        /\ Pending(q, now) /\ q.due /= 0
      OBVIOUS
    <3>1. PICK id \in DOMAIN young : /\ q = young[id] /\ young[id].due /= 0 /\ ~young[id].started
                                     /\ Pending(young[id], now)
      BY <1>due DEF DueNow
    <3>2. id \in DOMAIN requests /\ q = requests[id]
      BY <1>3, <3>1
    <3>3. requests[id].id = id
      BY <1>4, <3>2
    <3> QED BY <3>1, <3>2, <3>3 DEF Waiting, Pending
  <2>6. \A q \in due : q.id /= 0 /\ Copy(q) /\ Stem(q) /\ q.asked /\ (q.status /= "pending" => q.id \in settled')
    <3> SUFFICES ASSUME NEW q \in due
                 PROVE  /\ q.id /= 0 /\ Copy(q) /\ Stem(q) /\ q.asked
                        /\ (q.status /= "pending" => q.id \in settled')
      OBVIOUS
    <3>1. q.id \in DOMAIN requests /\ q = requests[q.id] /\ q.due /= 0 /\ q.status = "pending"
      BY <2>5 DEF Pending
    <3>2. Copy(q) /\ q.id /= 0 /\ q.asked
      BY <1>4, <3>1
    <3> QED BY <3>1, <3>2, StemOf
  <2>7. HandGoes(Alarm, x)
    <3>1. Awaits(x)'
      <4>1. r.id /= 0 /\ \A q \in due \ {r} : q.id /= 0
        BY <1>8, <2>6
      <4> QED BY <2>1, <2>2, <2>6, <4>1 DEF Awaits, FallsBack
    <3>2. ~MakesRequest(x)
      BY <2>1 DEF MakesRequest
    <3> QED BY <2>2, <2>6, <3>1, <3>2 DEF HandGoes
  <2>8. SigninsGo /\ PromptsGo(Alarm) /\ JobsGo(Alarm) /\ Leaves(Alarm, x) /\ Moves(Alarm, x)
    <3>1. SigninsGo
      BY <1>1 DEF SigninsGo, Signins, Attends, JobsKnown
    <3>2. PromptsGo(Alarm) /\ JobsGo(Alarm)
      BY <1>1 DEF PromptsGo, JobsGo
    <3>3. Leaves(Alarm, x)
      BY <1>1 DEF Leaves, Signing
    <3>4. Moves(Alarm, x)
      BY <1>1, <2>3, <2>4 DEF Moves
    <3> QED BY <3>1, <3>2, <3>3, <3>4
  <2>9. WaitersGo(Alarm, x)
    <3> SUFFICES ASSUME NEW id, Waiting(requests', id), ~Over(id)' PROVE HasAlarm(Alarm, x, id)
      BY <2>4 DEF WaitersGo
    <3>1. Waiting(requests, id)
      BY <1>3, <2>4 DEF Waiting
    <3>2. ~Over(id)
      BY <2>4, OverStays
    <3>3. Waiting(requests, r.id) /\ r = requests[r.id] /\ Pending(r, now)
      BY <1>8, <2>5
    <3>4. ~Over(r.id)
      <4>1. r.id \in DOMAIN requests /\ IsRequest(requests[r.id])
        BY <1>4, <3>3 DEF Waiting
      <4>2. ~(now >= requests[r.id].made + Timeout)
        BY <3>3, <4>1, TimesAssumption DEF Pending, IsRequest, CalledBefore
      <4> QED BY <3>3, <4>1, <4>2 DEF Over, Attends, WaitsOpen
    <3>5. id = r.id
      BY <3>1, <3>2, <3>3, <3>4, WaitersPending
    <3> QED BY <1>8, <2>1, <2>2, <3>5 DEF HasAlarm
  <2> QED BY <2>4, <2>7, <2>8, <2>9, StepKeeps DEF StepOf
<1> QED BY <1>2, <1>7, <1>8

(* Handler h ends with what the engine made of the request it was asked    *)
(* for: the request has its end, or it is over or a phone was asked.       *)
LEMMA DoneEndsAttends ==
  ASSUME CalledBefore, LoginInv, LoginInv', Attends, NEW h \in Handlers, ~Signing(h),
         NEW k, DoneEnds(h, k), NEW id, NEW r, r = k.req, r.id = 0 \/ r.id = id,
         r.id /= 0 => Stem(r) /\ (~WaitsFor(r) \/ (id \in DOMAIN requests /\ r = requests[id])),
         (r.id /= 0 /\ r.status /= "pending") \/ Prompted(id), Signins(id) >= 1,
         UNCHANGED <<now, pending, prompts, logins, numbered, crashes>>,
         \A job \in jobs \ jobs' : job.id = id, jobs' \subseteq jobs,
         ~Free(h) => calls[h].await /= "verify" /\ calls[h].req.id = id
  PROVE  Attends'
<1>1. Ends(h) /\ Around /\ UNCHANGED <<logins, alarmAt>>
  BY DEF DoneEnds, Around
<1>2. Writes(h, r) /\ (r.id /= 0 /\ r.status /= "pending" => id \in settled')
  <2>1. CASE r.id = 0
    <3>1. SetRequests(requests)
      BY <2>1 DEF DoneEnds
    <3> QED BY <2>1, <3>1, SetSame DEF Writes
  <2>2. CASE r.id /= 0
    <3>1. SetRequests(Put(requests, r)) /\ r.id = id
      BY <2>2 DEF DoneEnds
    <3>2. r.status /= "pending" => id \in settled'
      BY <3>1 DEF SetRequests, Put
    <3> QED BY <2>2, <3>1, <3>2 DEF Writes
  <2> QED BY <2>1, <2>2
<1>3. /\ calls'[h] = Idle /\ \A g \in Handlers : g /= h => calls'[g] = calls[g]
  BY <1>1 DEF Ends, CalledBefore, Underway
<1>4. \A i : ~(h = Alarm /\ AlarmHas(i))
  BY DEF AlarmHas
<1>5. Moves(h, Idle)
  BY <1>1, <1>2, <1>3, <1>4, WritesGo
<1>6. PromptsGo(h)
  BY DEF PromptsGo
<1>7. Prompted(id)'
  <2>1. CASE Prompted(id)
    BY <1>5, <1>6, <2>1, PromptedStays
  <2>2. CASE r.id /= 0 /\ r.status /= "pending"
    BY <1>2, <2>2 DEF Prompted, Over
  <2> QED BY <2>1, <2>2
<1>8. Taken(id)'
  BY <1>7 DEF Taken
<1>9. JobsGo(h)
  <2>1. \A job \in jobs \ jobs' : Taken(job.id)'
    <3> SUFFICES ASSUME NEW job \in jobs \ jobs' PROVE Taken(job.id)'
      OBVIOUS
    <3>i. PICK i : i = job.id
      OBVIOUS
    <3>1. i = id
      BY <3>i
    <3> QED BY <1>8, <3>1, <3>i
  <2>2. ~Free(h) /\ FallsBack(calls[h]) => \A i : i = calls[h].req.id => Taken(i)'
    BY <1>8
  <2> QED BY <2>1, <2>2 DEF JobsGo
<1> QED BY <1>1, <1>2, <1>6, <1>9, EndsStep

LEMMA DoneAskAttends ==
  ASSUME CalledBefore, LoginInv, LoginInv', TypeInv, Attends, NEW h \in Handlers, ~Free(h),
         NEW ok \in BOOLEAN, calls[h].await \in (IF ok THEN {"asked"} ELSE {"asked", "ask"}),
         DoneAsk(h, calls[h], ok), UNCHANGED <<now, pending, outside, numbered, crashes>>
  PROVE  Attends'
<1>k. PICK k : k = calls[h]
  OBVIOUS
<1>id. PICK id : id = k.req.id
  OBVIOUS
<1>r. PICK r : r = IF ok THEN [k.req EXCEPT !.asked = TRUE] ELSE Failed(k.req)
  OBVIOUS
<1>x. PICK x : x = [k EXCEPT !.req = r]
  OBVIOUS
<1>0. k.op = "done" /\ k.await \in {"ask", "asked"} /\ (ok => k.await = "asked")
  BY <1>k DEF DoneAsk
<1>1. IsCall(k) /\ Role(h, k) /\ Awaits(k) /\ IsRequest(k.req) /\ Stem(k.req) /\ id /= 0
  BY <1>0, <1>id, <1>k, SignerHand
<1>2. DoneEnds(h, x) /\ x.req = r
  BY <1>1, <1>k, <1>r, <1>x DEF DoneAsk, IsCall
<1>3. k.req.due = 0 /\ ~Signing(h)
  <2>1. k.op \notin {"session", "app", "alarm", "answer", "link"}
    BY <1>0
  <2> QED BY <1>0, <1>1, <1>k, <2>1 DEF Role, Signs, Signing, MakesOne
<1>4. /\ r.id = id /\ r.made = k.req.made /\ ~WaitsFor(r) /\ (~ok => r.status /= "pending")
      /\ ~ok => r.asked = k.req.asked
  BY <1>1, <1>3, <1>id, <1>r DEF IsRequest, Failed, WaitsFor
<1>5. (ok => Prompted(id)) /\ Signins(id) >= 1
  BY <1>0, <1>1, <1>id DEF Awaits, FallsBack
<1>6. Stem(r)
  BY <1>1, <1>4, <1>5, <1>id, StemLike
<1>7. UNCHANGED <<now, pending, prompts, logins, numbered, crashes, jobs>>
  BY DEF outside
<1>8. calls[h].await /= "verify" /\ calls[h].req.id = id
  BY <1>0, <1>id, <1>k
<1> QED BY <1>1, <1>2, <1>3, <1>4, <1>5, <1>6, <1>7, <1>8, DoneEndsAttends

(* The engine failed: it falls back to a phone that was not asked yet.     *)
LEMMA LoginFailsAttends ==
  ASSUME CalledBefore, LoginInv, LoginInv', Attends, NEW h \in Handlers, Free(h),
         NEW job \in jobs, jobs' = jobs \ {job}, NEW k, IsCall(k), k.op = "done", k.todo = {},
         k.at = now, LoginFails(h, k),
         k.req = IF job.id \in DOMAIN requests THEN requests[job.id] ELSE NoRequest,
         UNCHANGED <<now, pending, prompts, logins, numbered, crashes>>
  PROVE  Attends'
<1>id. PICK id : id = job.id
  OBVIOUS
<1>r. PICK r : r = k.req
  OBVIOUS
<1>1. /\ ~Signing(h) /\ Signins(id) >= 1 /\ jobs' \subseteq jobs
      /\ \A j \in jobs \ jobs' : j.id = id
  BY <1>id DEF Signing, Attends, JobsKnown
<1>2. /\ id \in DOMAIN requests => r = requests[id] /\ Copy(r) /\ r.id = id /\ id /= 0
      /\ id \notin DOMAIN requests => r = NoRequest /\ r.id = 0
      /\ IsRequest(r)
  <2>1. IsRequest(NoRequest) /\ NoRequest.id = 0
    BY DEF IsRequest, NoRequest
  <2> QED BY <1>id, <1>r, <2>1 DEF CalledBefore, Requests, LoginInv, Named, Copy, Attends, IdsGiven
<1>3. \/ /\ r.id /= 0 /\ r.phone /\ Await(h, k, "ask")
         /\ UNCHANGED <<requests, alarmAt, settled>>
      \/ r.id /= 0 /\ DoneEnds(h, [k EXCEPT !.req = Failed(@)])
      \/ (r.id = 0 \/ ~Pending(r, k.at) \/ r.asked) /\ DoneEnds(h, k)
  BY <1>r DEF LoginFails
<1>4. r.id /= 0 => id \in DOMAIN requests /\ Copy(r) /\ Stem(r) /\ r.id = id
  BY <1>2, StemOf
<1>5. CASE /\ r.id /= 0 /\ r.phone /\ Await(h, k, "ask")
           /\ UNCHANGED <<requests, alarmAt, settled>>
  <2>x. PICK x : x = [k EXCEPT !.await = "ask"]
    OBVIOUS
  <2>1. x.op = "done" /\ x.req = r /\ x.await = "ask"
    BY <1>r, <2>x DEF IsCall
  <2>2. calls'[h] = x
    BY <1>5, <2>x DEF Await, CalledBefore, Underway
  <2>3. Taken(id)'
    <3>1. ~Free(h)' /\ FallsBack(calls'[h]) /\ calls'[h].req.id = id
      BY <1>4, <1>5, <2>1, <2>2 DEF Free, FallsBack
    <3> QED BY <3>1 DEF Taken, FallsBack
  <2>4. PromptsGo(h)
    BY DEF PromptsGo
  <2>5. JobsGo(h)
    <3> SUFFICES ASSUME NEW j \in jobs \ jobs' PROVE Taken(j.id)'
      BY DEF JobsGo
    <3>i. PICK i : i = j.id
      OBVIOUS
    <3>1. i = id
      BY <1>id, <3>i
    <3> QED BY <2>3, <3>1, <3>i
  <2>6. Writes(h, r) /\ Around /\ UNCHANGED <<logins, alarmAt>>
    BY <1>5 DEF Writes, Around
  <2>7. Await(h, k, "ask") /\ Signins(k.req.id) >= 1 /\ k.req.id /= 0 /\ Copy(k.req)
    BY <1>1, <1>4, <1>5, <1>r
  <2> QED BY <1>1, <2>4, <2>5, <2>6, <2>7, GoesStep
<1>6. CASE r.id /= 0 /\ DoneEnds(h, [k EXCEPT !.req = Failed(@)])
  <2>x. PICK x : x = [k EXCEPT !.req = Failed(@)]
    OBVIOUS
  <2>f. PICK f : f = Failed(r)
    OBVIOUS
  <2>1. DoneEnds(h, x) /\ x.req = f
    BY <1>6, <1>r, <2>f, <2>x DEF IsCall
  <2>2. f.id = id /\ f.made = r.made /\ f.asked = r.asked /\ f.status /= "pending" /\ ~WaitsFor(f)
    BY <1>2, <1>4, <1>6, <2>f DEF Failed, IsRequest, WaitsFor
  <2>3. Stem(f) /\ f.id /= 0
    BY <1>4, <1>6, <2>2, StemLike
  <2> QED BY <1>1, <2>1, <2>2, <2>3, DoneEndsAttends
<1>7. CASE (r.id = 0 \/ ~Pending(r, k.at) \/ r.asked) /\ DoneEnds(h, k)
  <2>1. Prompted(id)
    <3>1. CASE r.id = 0
      BY <1>2, <3>1 DEF Prompted, Over
    <3>2. CASE r.id /= 0 /\ ~Pending(r, k.at)
      <4>1. now \in Nat /\ now <= now
        BY DEF CalledBefore
      <4>2. Over(r.id)
        BY <1>2, <1>4, <3>2, <4>1, CopyOver
      <4> QED BY <1>4, <3>2, <4>2 DEF Prompted
    <3>3. CASE r.id /= 0 /\ r.asked
      BY <1>4, <3>3 DEF Attends, AskedPrompted
    <3> QED BY <1>7, <3>1, <3>2, <3>3
  <2>2. r.id = 0 \/ r.id = id
    BY <1>4
  <2> QED BY <1>1, <1>2, <1>4, <1>7, <1>r, <2>1, <2>2, DoneEndsAttends
<1> QED BY <1>3, <1>5, <1>6, <1>7

LEMMA LoginDoneAttends ==
  ASSUME CalledBefore, LoginInv, LoginInv', TypeInv, Attends, NEW h \in Handlers, LoginDone(h)
  PROVE  Attends'
<1>1. PICK job \in jobs :
        /\ jobs' = jobs \ {job}
        /\ LET r == IF job.id \in DOMAIN requests THEN requests[job.id] ELSE NoRequest
               k == [Loaded("done") EXCEPT !.req = r]
           IN \/ DoneEnds(h, [k EXCEPT !.doc = NewSession(@, now),
                                !.req = IF Pending(r, now) THEN [r EXCEPT !.status = "success"] ELSE r])
              \/ LoginFails(h, [k EXCEPT !.doc = Rejected(@)])
              \/ LoginFails(h, [k EXCEPT !.doc = NoVault(@)])
              \/ LoginFails(h, k)
              \/ LoginFails(h, [k EXCEPT !.doc.vault = Fresh(@)])
  BY DEF LoginDone
<1>id. PICK id : id = job.id
  OBVIOUS
<1>r. PICK r : r = IF job.id \in DOMAIN requests THEN requests[job.id] ELSE NoRequest
  OBVIOUS
<1>k. PICK k : k = [Loaded("done") EXCEPT !.req = r]
  OBVIOUS
<1>q. PICK q : q = IF Pending(r, now) THEN [r EXCEPT !.status = "success"] ELSE r
  OBVIOUS
<1>d. PICK d : d = [k EXCEPT !.doc = NewSession(@, now), !.req = q]
  OBVIOUS
<1>2. Free(h) /\ UNCHANGED <<now, pending, prompts, logins, numbered, crashes>>
  BY DEF LoginDone
<1>3. /\ id \in DOMAIN requests => r = requests[id] /\ Copy(r) /\ r.id = id /\ id /= 0
      /\ id \notin DOMAIN requests => r = NoRequest /\ r.id = 0
      /\ IsRequest(r)
  <2>1. IsRequest(NoRequest) /\ NoRequest.id = 0
    BY DEF IsRequest, NoRequest
  <2> QED BY <1>id, <1>r, <2>1 DEF CalledBefore, Requests, LoginInv, Named, Copy, Attends, IdsGiven
<1>4. IsCall(k) /\ k.req = r /\ k.op = "done" /\ k.todo = {} /\ k.at = now
  BY <1>3, <1>k, LoadedCall DEF CalledBefore, IsCall, Loaded, NoCall
<1>5. \/ DoneEnds(h, d) \/ LoginFails(h, k)
      \/ LoginFails(h, [k EXCEPT !.doc = Rejected(@)])
      \/ LoginFails(h, [k EXCEPT !.doc = NoVault(@)])
      \/ LoginFails(h, [k EXCEPT !.doc.vault = Fresh(@)])
  BY <1>1, <1>r, <1>k, <1>q, <1>d
<1>6. CASE DoneEnds(h, d)
  <2>1. r.id /= 0 => Stem(r)
    BY <1>3, StemOf
  <2>2. /\ d.req = q /\ IsRequest(q) /\ q.id = r.id /\ q.made = r.made /\ q.asked = r.asked
        /\ Pending(r, now) => q.status /= "pending"
        /\ q = r \/ ~WaitsFor(q)
    BY <1>3, <1>4, <1>d, <1>q DEF IsCall, IsRequest, WaitsFor
  <2>3. q.id = 0 \/ q.id = id
    BY <1>3, <2>2
  <2>4. q.id /= 0 => Stem(q) /\ (~WaitsFor(q) \/ (id \in DOMAIN requests /\ q = requests[id]))
    BY <1>3, <2>1, <2>2, StemLike
  <2>5. (q.id /= 0 /\ q.status /= "pending") \/ Prompted(id)
    <3>1. CASE r.id = 0
      BY <1>3, <3>1 DEF Prompted, Over
    <3>2. CASE r.id /= 0 /\ ~Pending(r, now)
      <4>1. now \in Nat /\ now <= now
        BY DEF CalledBefore
      <4>2. Over(r.id)
        BY <1>3, <3>2, <4>1, CopyOver
      <4> QED BY <1>3, <3>2, <4>2 DEF Prompted
    <3> QED BY <2>2, <3>1, <3>2
  <2>6. ~Signing(h) /\ Signins(id) >= 1 /\ jobs' \subseteq jobs
        /\ \A j \in jobs \ jobs' : j.id = id
    BY <1>1, <1>2, <1>id DEF Signing, Attends, JobsKnown
  <2> QED BY <1>2, <1>6, <2>2, <2>3, <2>4, <2>5, <2>6, DoneEndsAttends
<1>7. ASSUME NEW e, LoginFails(h, [k EXCEPT !.doc = e]) PROVE Attends'
  <2>x. PICK x : x = [k EXCEPT !.doc = e]
    OBVIOUS
  <2>1. IsCall(x) /\ x.req = r /\ x.op = "done" /\ x.todo = {} /\ x.at = now
    BY <1>4, <2>x, DocKeeps DEF IsCall
  <2>2. LoginFails(h, x) /\ jobs' = jobs \ {job}
    BY <1>1, <1>7, <2>x
  <2> QED BY <1>2, <1>r, <2>1, <2>2, LoginFailsAttends
<1>8. CASE LoginFails(h, k)
  BY <1>1, <1>2, <1>4, <1>8, <1>r, LoginFailsAttends
<1>9. CASE LoginFails(h, [k EXCEPT !.doc.vault = Fresh(@)])
  BY <1>7, <1>9
<1> QED BY <1>5, <1>6, <1>7, <1>8, <1>9

LEMMA ToldAttends ==
  ASSUME CalledBefore, LoginInv, LoginInv', TypeInv, TypeInv', Attends, crashes = 0,
         NEW h \in Handlers, NEW ok \in BOOLEAN, Told(h, ok)
  PROVE  Attends'
<1>1. ~Free(h) /\ UNCHANGED <<now, pending, outside, numbered, crashes>>
  BY DEF Told
<1>2. \/ /\ calls[h].await \in (IF ok THEN {"taken"} ELSE {"taken", "login"})
         /\ BeginLogin(h, calls[h], ok) \/ AppLogin(h, calls[h], ok) \/ AlarmLogin(calls[h], ok)
      \/ /\ calls[h].await \in (IF ok THEN {"asked"} ELSE {"asked", "ask"})
         /\ BeginAsk(h, calls[h], ok) \/ DoneAsk(h, calls[h], ok)
  BY DEF Told
<1>3. CASE /\ calls[h].await \in (IF ok THEN {"taken"} ELSE {"taken", "login"})
           /\ BeginLogin(h, calls[h], ok)
  BY <1>1, <1>3, BeginAttends
<1>4. CASE /\ calls[h].await \in (IF ok THEN {"taken"} ELSE {"taken", "login"})
           /\ AppLogin(h, calls[h], ok)
  BY <1>1, <1>4, AppLoginAttends
<1>5. CASE /\ calls[h].await \in (IF ok THEN {"taken"} ELSE {"taken", "login"})
           /\ AlarmLogin(calls[h], ok)
  BY <1>1, <1>5, AlarmLoginAttends
<1>6. CASE /\ calls[h].await \in (IF ok THEN {"asked"} ELSE {"asked", "ask"})
           /\ BeginAsk(h, calls[h], ok)
  BY <1>1, <1>6, BeginAttends
<1>7. CASE /\ calls[h].await \in (IF ok THEN {"asked"} ELSE {"asked", "ask"})
           /\ DoneAsk(h, calls[h], ok)
  BY <1>1, <1>7, DoneAskAttends
<1> QED BY <1>2, <1>3, <1>4, <1>5, <1>6, <1>7

LEMMA AttendsNext ==
  ASSUME CalledBefore, LoginInv, LoginInv', TypeInv, TypeInv', Attends, crashes = 0, [Next]_vars,
         crashes' = 0
  PROVE  Attends'
<1>1. ASSUME NEW h \in Slots, StartSession(h) \/ LoginDone(h) \/ Answer(h) \/ Link(h)
      PROVE  Attends'
  BY <1>1, StartSessionAttends, LoginDoneAttends, AnswerAttends, LinkAttends DEF Handlers
<1>2. ASSUME NEW h \in Handlers, Continue(h)
      PROVE  Attends'
  BY <1>2, CheckedAttends, EngineTakesAttends, PhoneGetsAttends, ToldAttends, VerifiedAttends,
     SealedAttends DEF Continue
<1>3. ~Crash
  BY DEF Crash
<1> QED BY <1>1, <1>2, <1>3, AnswerErrorAttends, AlarmRingsAttends, StillAttends, TickAttends DEF Next

(* No crash is forgotten.                                                  *)
LEMMA CrashesCount ==
  ASSUME LoginInv, [Next]_vars, crashes' = 0
  PROVE  crashes = 0
<1>1. crashes \in Nat
  BY DEF LoginInv, Named
<1>2. \/ UNCHANGED crashes \/ Crash
  BY DEF Next, Continue, StartSession, LoginDone, Answer, Link, Checked, EngineTakes, PhoneGets, Told,
     Verified, Sealed, AnswerError, Edit, AlarmRings, Tick, vars
<1> QED BY <1>1, <1>2 DEF Crash

(* Whatever is under way at once, and whatever stale copies of it handlers *)
(* write back, a request the student waits for is never left to nobody: a  *)
(* handler or the engine is on it, the alarm is set for when its wait is   *)
(* over, or a phone was asked (account.ts:862-881, 1007-1016, 1449-1465).  *)
THEOREM NobodyForgetsHolds == Spec => []NobodyForgets
<1> DEFINE Inv == CalledBefore /\ LoginInv /\ TypeInv /\ (crashes = 0 => Attends)
<1>1. Init => Inv
  BY InitCalledBefore, LoginInit, TypeInit, InitAttends
<1>2. Inv /\ [Next]_vars => Inv'
  <2> SUFFICES ASSUME Inv, [Next]_vars PROVE Inv'
    OBVIOUS
  <2>1. CalledBefore' /\ LoginInv' /\ TypeInv'
    BY NextKeeps, LoginNext, TypeNext
  <2>2. crashes' = 0 => crashes = 0
    BY CrashesCount
  <2> QED BY <2>1, <2>2, AttendsNext
<1>3. Inv => NobodyForgets
  BY AttendsAll DEF NobodyForgets
<1> QED BY <1>1, <1>2, <1>3, PTL DEF Spec
=============================================================================

------------------------- MODULE PhoneSessionProof --------------------------
(***************************************************************************)
(* For any number of fetches and sessions: a restored session is validated *)
(* once, and on the phone a signed-in session is never dropped by the late *)
(* answer to a request sent on an earlier one, so that a fetch retries on  *)
(* the session it met (RetriesOnNewSession).                               *)
(***************************************************************************)
EXTENDS PhoneSession, TLAPS

Session == Sessions \cup {None}

(* The setters of the session data.                                        *)
LEMMA SettersKeepClient ==
  ASSUME NEW c \in Client, NEW s \in Session
  PROVE  /\ SetCsrf(c, s) \in Client
         /\ SetFields(c, s) \in Client
         /\ SetAuthenticated(c) \in Client
         /\ LeaveExternal(c) \in Client
         /\ Finish(c) \in Client
BY DEF Client, SetCsrf, SetFields, SetAuthenticated, LeaveExternal, Finish, Session

(* A client without a session.                                             *)
LEMMA ClearedClient == Cleared \in Client
BY DEF Cleared, Client

(* What a resumed session is taken for.                                    *)
LEMMA ResumedClient ==
  ASSUME NEW s \in Sessions, NEW kind \in {"signed", "otp", "cookies"},
         NEW age \in {"unknown", "young", "old"}
  PROVE  /\ Resumed(s, kind, age) \in Client
         /\ kind = "signed" => Resumed(s, kind, age).auth = "authenticated"
         /\ kind = "otp" => Resumed(s, kind, age).auth = "anonymous"
         /\ Resumed(s, kind, age).auth = "authenticated"
              => Resumed(s, kind, age).csrf # None /\ Resumed(s, kind, age).regno
BY SessionsAssumption
   DEF Resumed, SetExternal, Cleared, SetCsrf, SetFields, SetAuthenticated, LeaveExternal,
       Client, None

(* After a page that names the student a client is signed in completely,   *)
(* or not at all, and never a restored one.                                *)
LEMMA FieldsComplete ==
  ASSUME NEW c \in Client, NEW s \in Session,
         NEW d, \/ d = Finish(SetFields(c, s))
                \/ d = LeaveExternal(SetAuthenticated(SetFields(c, s)))
  PROVE  /\ d \in Client
         /\ d.auth # "restored"
         /\ d.auth = "authenticated" => d.csrf # None /\ d.regno
         /\ d.stage = "otp" => c.stage = "otp"
BY DEF Client, SetFields, SetAuthenticated, LeaveExternal, Finish, Session
-----------------------------------------------------------------------------
(* What the steps of a fetch do to the fetches.                            *)
Only(f) == /\ fetch' \in [Fetchers -> Fetch]
           /\ \A g \in Fetchers \ {f} : fetch'[g] = fetch[g]

LEMMA ToMoves ==
  ASSUME TypeOK, NEW f \in Fetchers, NEW phase \in FetchPhase, To(f, phase)
  PROVE  Only(f) /\ fetch'[f].phase = phase
BY DEF TypeOK, To, Without, Only, Fetch, None

LEMMA SentMoves ==
  ASSUME TypeOK, NEW f \in Fetchers, NEW csrf \in Session,
         fetch' = [fetch EXCEPT ![f] = Carrying(@, jar, csrf)]
  PROVE  Only(f) /\ fetch'[f].phase = "sent" /\ fetch'[f].cookie = jar
<1>1. fetch[f] \in Fetch /\ jar \in Session
  BY DEF TypeOK, Session
<1>2. /\ Carrying(fetch[f], jar, csrf) \in Fetch
      /\ Carrying(fetch[f], jar, csrf).phase = "sent"
      /\ Carrying(fetch[f], jar, csrf).cookie = jar
  BY <1>1 DEF Carrying, Fetch, FetchPhase, InRust, Session
<1>3. fetch \in [Fetchers -> Fetch]
  BY DEF TypeOK
<1> HIDE DEF Carrying
<1> QED BY <1>2, <1>3 DEF Only

(* A request for a sign-in, which is not under way yet.                    *)
LEMMA JoinKeeps ==
  ASSUME TypeOK, NEW force \in BOOLEAN, JoinLogin(force)
  PROVE  /\ login' \in Login
         /\ login' = login \/ (login'.phase = "queued" /\ ~login'.asked)
BY DEF TypeOK, JoinLogin, Login, LoginPhase

LEMMA ExpiredMoves ==
  ASSUME TypeOK, NEW f \in Fetchers, Expired(f)
  PROVE  /\ Only(f)
         /\ fetch'[f].phase \in {"expired", "start", "relogin"}
         /\ login' \in Login
         /\ login' = login \/ (login'.phase = "queued" /\ ~login'.asked)
         /\ relogin' \in {"none", "asked", "signed in"}
<1>1. CASE To(f, "expired") /\ UNCHANGED <<login, relogin>>
  BY <1>1, ToMoves DEF FetchPhase, Ended, TypeOK
<1>2. CASE /\ fetch' = [fetch EXCEPT ![f] = [Without(@, "start") EXCEPT !.retried = TRUE]]
           /\ UNCHANGED <<login, relogin>>
  BY <1>2 DEF TypeOK, Without, Only, Fetch, FetchPhase, None
<1>3. CASE /\ To(f, "relogin")
           /\ IF relogin = "none"
              THEN relogin' = "asked" /\ JoinLogin(TRUE)
              ELSE UNCHANGED <<login, relogin>>
  BY <1>3, ToMoves, JoinKeeps DEF FetchPhase, Waiting, TypeOK
<1> QED BY <1>1, <1>2, <1>3 DEF Expired

(* The end of a sign-in moves nobody who is inside the client or at the    *)
(* server.                                                                 *)
Settled == /\ fetch' \in [Fetchers -> Fetch]
           /\ \A g \in Fetchers :
                /\ fetch'[g].cookie = fetch[g].cookie
                /\ \/ fetch'[g].phase = fetch[g].phase
                   \/ /\ fetch[g].phase \notin InRust \cup {"asking"}
                      /\ fetch'[g].phase \notin InRust \cup {"asking"}

LEMMA LoginEndsSettled ==
  ASSUME TypeOK, NEW s \in Session, LoginEnds(s)
  PROVE  /\ Settled
         /\ login' = NoLogin
         /\ login' \in Login
         /\ relogin' \in {"none", "asked", "signed in"}
<1>1. \A g \in Fetchers : /\ After(s # None, g) \in FetchPhase
                          /\ \/ After(s # None, g) = fetch[g].phase
                             \/ /\ fetch[g].phase \in Waiting
                                /\ After(s # None, g) \in {"ensure", "start", "failed"}
  BY DEF After, TypeOK, Fetch, FetchPhase, Waiting, Ended
<1>2. ASSUME NEW g \in Fetchers
      PROVE  /\ fetch'[g] \in Fetch
             /\ fetch'[g].cookie = fetch[g].cookie
             /\ fetch'[g].phase = After(s # None, g)
  <2>1. fetch[g] \in Fetch
    BY DEF TypeOK
  <2>2. PICK met \in Session :
          fetch'[g] = [fetch[g] EXCEPT !.phase = After(s # None, g), !.met = met]
    <3>1. fetch[g].met \in Session
      BY <2>1 DEF Fetch, Session
    <3> QED BY <3>1 DEF LoginEnds
  <2>3. After(s # None, g) \in FetchPhase
    BY <1>1
  <2> QED BY <2>1, <2>2, <2>3 DEF Fetch, Session
<1>3. fetch' \in [Fetchers -> Fetch]
  <2>1. fetch' = [g \in Fetchers |-> fetch'[g]]
    BY DEF LoginEnds
  <2> QED BY <1>2, <2>1
<1>4. Settled
  BY <1>1, <1>2, <1>3 DEF Settled, InRust, Waiting
<1> QED BY <1>4 DEF LoginEnds, NoLogin, Login, LoginPhase, ReloginAfter, TypeOK

LEMMA UnchangedSettled ==
  ASSUME TypeOK, UNCHANGED fetch
  PROVE  Settled
BY DEF TypeOK, Settled
-----------------------------------------------------------------------------
(* A step of fetch f that leaves the client alone.                         *)
LEMMA MoveKeeps ==
  ASSUME IInv, NEW f \in Fetchers, Only(f),
         UNCHANGED <<setup, vtop, deaths, jar, client, dropped, mutex, validations,
                     generation>>,
         login' \in Login, login' = login \/ (login'.phase = "queued" /\ ~login'.asked),
         relogin' \in {"none", "asked", "signed in"},
         fetch[f].phase # "content", fetch'[f].phase # "content",
         fetch'[f].phase \in InRust => fetch[f].phase \in InRust \/ MayRead,
         fetch'[f].phase = "sent" => fetch'[f].cookie = jar,
         fetch'[f].phase = "asking" => onServer
  PROVE  IInv'
<1>1. \A g \in Fetchers : \/ fetch'[g] = fetch[g]
                          \/ /\ fetch'[g].phase = "sent" => fetch'[g].cookie = jar
                             /\ fetch'[g].phase = "asking" => onServer
                             /\ fetch[g].phase # "content" /\ fetch'[g].phase # "content"
  BY DEF Only
<1>2. TypeOK'
  BY <1>1 DEF IInv, TypeOK, Only
<1>3. LockExcludes'
  BY DEF IInv, LockExcludes, Readers, Only, MayRead, Writing
<1>4. CarriesJar'
  BY <1>1 DEF IInv, CarriesJar, onServer
<1>5. ChecksRestored'
  BY <1>1 DEF IInv, ChecksRestored, onServer
<1>6. LoginHolds' /\ TrustsComplete' /\ ValidatesOnce'
  BY DEF IInv, LoginHolds, TrustsComplete, ValidatesOnce, OneValidation
<1>7. ServerOnly'
  BY <1>1 DEF IInv, ServerOnly, onServer
<1> QED BY <1>2, <1>3, <1>4, <1>5, <1>6, <1>7 DEF IInv

(* The answer to fetch f drops the client's session: nobody signs in.      *)
LEMMA ResetKeeps ==
  ASSUME IInv, NEW f \in Fetchers, Only(f), ResetBy(f),
         UNCHANGED <<setup, vtop, deaths, validations, generation>>,
         mutex' = IF mutex = f THEN NoOne ELSE mutex,
         login' \in Login, login' = login \/ (login'.phase = "queued" /\ ~login'.asked),
         relogin' \in {"none", "asked", "signed in"},
         fetch[f].phase \in InRust, fetch'[f].phase \notin InRust \cup {"asking"}
  PROVE  IInv'
<1>1. login.phase \notin Writing /\ login'.phase \notin Writing
  BY DEF IInv, LockExcludes, Readers, Writing
<1>2. /\ client' = Cleared /\ client' \in Client /\ jar' = None
      /\ client'.auth = "anonymous" /\ client'.stage = "idle"
      /\ dropped' \subseteq Sessions
  BY ClearedClient DEF IInv, TypeOK, ResetBy, Reset, GivesUp, Cleared
<1>3. \A g \in Fetchers : fetch'[g].phase = "content" <=> mutex' = g
  BY NoOneAssumption DEF IInv, TypeOK, Only, InRust
<1>4. TypeOK'
  BY <1>2, <1>3, NoOneAssumption DEF IInv, TypeOK, Only
<1>5. LockExcludes' /\ LoginHolds'
  BY <1>1, <1>2 DEF LockExcludes, LoginHolds, Writing
<1>6. CarriesJar' /\ ChecksRestored' /\ TrustsComplete'
  BY <1>2 DEF CarriesJar, ChecksRestored, TrustsComplete
<1>7. ServerOnly'
  BY DEF IInv, ServerOnly, Only, onServer
<1>8. ValidatesOnce'
  BY <1>2 DEF IInv, ValidatesOnce, OneValidation
<1> QED BY <1>4, <1>5, <1>6, <1>7, <1>8 DEF IInv

(* Counters.                                                               *)
LEMMA CountKept ==
  ASSUME NEW n \in Nat, NEW m, m = n \/ m = 0
  PROVE  m \in Nat /\ (n <= 1 => m <= 1) /\ n + 1 \in Nat
OBVIOUS

LEMMA StepsUpTo ==
  ASSUME NEW N \in Nat, NEW n \in 0..N, n < N
  PROVE  n + 1 \in 0..N
OBVIOUS

(* A step of the sign-in or of the world.                                  *)
LEMMA SettledKeeps ==
  ASSUME IInv, Settled, UNCHANGED <<setup, mutex>>,
         vtop' \in [Sessions -> {"none", "open", "otp", "live", "dead"}],
         deaths' \in 0..MaxDeaths, jar' \in Session, client' \in Client,
         dropped' \subseteq Sessions, login' \in Login, generation' \in Nat,
         relogin' \in {"none", "asked", "signed in"},
         validations' = validations \/ validations' = 0,
         login'.phase \in Writing => Readers = {},
         jar' \in {jar, None} \/ Readers = {} \/ onServer,
         \/ client'.auth # "authenticated" \/ client.auth = "authenticated"
         \/ Readers = {} \/ onServer,
         TrustsComplete', LoginHolds',
         login'.phase = "server" \/ login'.asked => onServer,
         client'.auth = "restored" => client.auth = "restored"
  PROVE  IInv'
<1>1. \A g \in Fetchers : /\ fetch'[g].phase \in InRust => fetch'[g].phase = fetch[g].phase
                          /\ fetch[g].phase \in InRust => fetch'[g].phase = fetch[g].phase
                          /\ fetch'[g].phase = "asking" => fetch[g].phase = "asking"
                          /\ fetch'[g].cookie = fetch[g].cookie
  BY DEF Settled
<1>2. \A g \in Fetchers : fetch'[g].phase = "content" <=> mutex' = g
  BY <1>1 DEF IInv, TypeOK, InRust
<1>3. TypeOK'
  <2>1. setup' \in Setups /\ mutex' \in Fetchers \cup {NoOne}
    BY DEF IInv, TypeOK
  <2>2. validations' \in Nat
    BY CountKept DEF IInv, TypeOK
  <2>3. fetch' \in [Fetchers -> Fetch] /\ jar' \in Sessions \cup {None}
    BY DEF Settled, Session
  <2> QED BY <1>2, <2>1, <2>2, <2>3 DEF TypeOK
<1>4. LockExcludes'
  BY <1>1 DEF LockExcludes, Readers
<1>5. CarriesJar'
  BY <1>1 DEF IInv, CarriesJar, onServer, Readers, InRust
<1>6. ChecksRestored'
  BY <1>1 DEF IInv, ChecksRestored, onServer, Readers, InRust
<1>7. ServerOnly'
  BY <1>1 DEF IInv, ServerOnly, onServer
<1>8. ValidatesOnce'
  <2>0. validations \in Nat /\ validations <= 1
    BY DEF IInv, TypeOK, ValidatesOnce, OneValidation
  <2>1. validations' <= 1
    BY <2>0, CountKept
  <2>2. client'.auth = "restored" /\ mutex' = NoOne => validations' = 0
    BY DEF IInv, ValidatesOnce
  <2> QED BY <2>1, <2>2 DEF ValidatesOnce, OneValidation
<1> QED BY <1>3, <1>4, <1>5, <1>6, <1>7, <1>8 DEF IInv
-----------------------------------------------------------------------------
(* The invariant holds at the start and after every step.                  *)
LEMMA InitInv == Init => IInv
<1> SUFFICES ASSUME Init PROVE IInv
  OBVIOUS
<1>1. PICK known \in {"none", "live", "dead"} :
        /\ vtop = [s \in Sessions |-> IF s = 1 THEN known ELSE "none"]
        /\ jar = IF known = "none" THEN None ELSE 1
        /\ client \in IF known = "none" THEN {Cleared}
                      ELSE {Resumed(1, kind, "unknown") : kind \in {"signed", "cookies"}}
                           \cup {Resumed(1, "signed", "young")}
  BY DEF Init
<1>2. \/ client = Cleared
      \/ \E kind \in {"signed", "cookies"}, age \in {"unknown", "young"} :
           client = Resumed(1, kind, age)
  BY <1>1
<1>3. /\ client \in Client /\ client.stage = "idle"
      /\ client.auth = "authenticated" => client.csrf # None /\ client.regno
  <2>1. CASE client = Cleared
    BY <2>1, ClearedClient DEF Cleared
  <2>2. ASSUME NEW kind \in {"signed", "cookies"}, NEW age \in {"unknown", "young"},
               client = Resumed(1, kind, age)
        PROVE  <1>3
    <3>1. client.stage = "idle"
      BY <2>2 DEF Resumed, SetExternal, Cleared, SetFields, SetAuthenticated
    <3> QED BY <2>2, <3>1, ResumedClient, SavedAssumption
  <2> QED BY <1>2, <2>1, <2>2
<1>4. \A f \in Fetchers : /\ fetch[f].phase = "idle"
                          /\ fetch[f] \in Fetch
  BY DEF Init, Fetch, FetchPhase, None
<1>5. TypeOK
  <2>1. vtop \in [Sessions -> {"none", "open", "otp", "live", "dead"}]
    BY <1>1
  <2>2. jar \in Sessions \cup {None}
    BY <1>1, SavedAssumption
  <2>3. fetch \in [Fetchers -> Fetch]
    BY <1>4 DEF Init
  <2>4. login \in Login
    BY DEF Init, NoLogin, Login, LoginPhase
  <2>5. /\ setup \in Setups /\ deaths \in 0..MaxDeaths /\ mutex = NoOne
        /\ validations \in Nat /\ dropped \subseteq Sessions
        /\ relogin \in {"none", "asked", "signed in"} /\ generation \in Nat
    BY MaxDeathsAssumption DEF Init
  <2> QED BY <1>3, <1>4, <2>1, <2>2, <2>3, <2>4, <2>5, NoOneAssumption DEF TypeOK
<1>6. login.phase = "none" /\ ~login.asked /\ validations = 0
  BY DEF Init, NoLogin
<1>7. LockExcludes /\ CarriesJar /\ ChecksRestored /\ TrustsComplete
  BY <1>3, <1>4, <1>6 DEF LockExcludes, CarriesJar, ChecksRestored, TrustsComplete, Writing
<1>8. LoginHolds /\ ServerOnly /\ ValidatesOnce
  BY <1>3, <1>4, <1>6 DEF LoginHolds, ServerOnly, ValidatesOnce, OneValidation
<1> QED BY <1>5, <1>7, <1>8 DEF IInv
-----------------------------------------------------------------------------
(* A fetch.                                                                *)
LEMMA QueueKeeps ==
  ASSUME IInv, NEW f \in Fetchers, Queue(f)
  PROVE  IInv'
<1>1. PICK phase \in {"ensure", "behind"} : To(f, phase)
  BY DEF Queue
<1>2. Only(f) /\ fetch'[f].phase = phase
  BY <1>1, ToMoves DEF IInv, FetchPhase, Waiting
<1> QED BY <1>1, <1>2, MoveKeeps DEF Queue, IInv, TypeOK, InRust

LEMMA EnsureKeeps ==
  ASSUME IInv, NEW f \in Fetchers, Ensure(f)
  PROVE  IInv'
<1>1. PICK phase \in {"signing", "start"} :
        To(f, phase) /\ (JoinLogin(FALSE) \/ login' = login)
  BY DEF Ensure
<1>2. Only(f) /\ fetch'[f].phase = phase
  BY <1>1, ToMoves DEF IInv, FetchPhase, Waiting
<1>3. login' \in Login /\ (login' = login \/ (login'.phase = "queued" /\ ~login'.asked))
  BY <1>1, JoinKeeps DEF IInv, TypeOK
<1> QED BY <1>1, <1>2, <1>3, MoveKeeps DEF Ensure, IInv, TypeOK, InRust

LEMMA StartKeeps ==
  ASSUME IInv, NEW f \in Fetchers, Start(f)
  PROVE  IInv'
<1>1. PICK r \in Fetch :
        /\ fetch' = [fetch EXCEPT ![f] = r]
        /\ r.phase \in {"enter", "asking"}
        /\ r.phase = "asking" => onServer
  <2>1. fetch[f] \in Fetch /\ jar \in Session
    BY DEF IInv, TypeOK, Session
  <2>2. Begun(fetch[f]) \in Fetch
    BY <2>1 DEF Begun, IInv, TypeOK, Fetch
  <2> DEFINE enters == [Begun(fetch[f]) EXCEPT !.phase = "enter"]
             asks(s) == [Begun(fetch[f]) EXCEPT !.phase = "asking", !.cookie = s]
  <2>3. /\ enters \in Fetch /\ enters.phase = "enter"
        /\ \A s \in Session : asks(s) \in Fetch /\ asks(s).phase = "asking"
    BY <2>2 DEF Fetch, FetchPhase, Session
  <2>4. \/ fetch' = [fetch EXCEPT ![f] = enters]
        \/ onServer /\ \E s \in Session : fetch' = [fetch EXCEPT ![f] = asks(s)]
    BY <2>1 DEF Start, Session
  <2> HIDE DEF enters, asks
  <2> QED BY <2>3, <2>4
<1>2. Only(f) /\ fetch'[f].phase \in {"enter", "asking"}
              /\ (fetch'[f].phase = "asking" => onServer)
  BY <1>1 DEF IInv, TypeOK, Only
<1> QED BY <1>2, MoveKeeps DEF Start, IInv, TypeOK, InRust

LEMMA EnterKeeps ==
  ASSUME IInv, NEW f \in Fetchers, Enter(f)
  PROVE  IInv'
<1>1. CASE Sent(f)
  <2>1. Only(f) /\ fetch'[f].phase = "sent" /\ fetch'[f].cookie = jar
    BY <1>1, SentMoves DEF Sent, IInv, TypeOK, Client, Session
  <2> QED BY <2>1, MoveKeeps DEF Enter, IInv, TypeOK
<1>2. CASE To(f, "mutex")
  <2>1. Only(f) /\ fetch'[f].phase = "mutex"
    BY <1>2, ToMoves DEF IInv, FetchPhase, InRust
  <2> QED BY <2>1, MoveKeeps DEF Enter, IInv, TypeOK
<1> QED BY <1>1, <1>2 DEF Enter

LEMMA RecheckKeeps ==
  ASSUME IInv, NEW f \in Fetchers, Recheck(f)
  PROVE  IInv'
<1>1. CASE Sent(f) /\ UNCHANGED <<mutex, validations, login, relogin>>
  <2>1. Only(f) /\ fetch'[f].phase = "sent" /\ fetch'[f].cookie = jar
    BY <1>1, SentMoves DEF Sent, IInv, TypeOK, Client, Session
  <2> QED BY <1>1, <2>1, MoveKeeps DEF Recheck, IInv, TypeOK, InRust
<1>2. CASE /\ ~UsableByNow
           /\ client.auth # "anonymous"
           /\ mutex' = f
           /\ validations' = validations + 1
           /\ fetch' = [fetch EXCEPT ![f].phase = "content", ![f].cookie = client.ext]
           /\ UNCHANGED <<login, relogin>>
  <2>1. Only(f) /\ fetch'[f].phase = "content"
    <3>1. fetch[f] \in Fetch /\ client.ext \in Session
      BY DEF IInv, TypeOK, Client, Session
    <3> DEFINE r == [fetch[f] EXCEPT !.phase = "content", !.cookie = client.ext]
    <3>2. r \in Fetch /\ r.phase = "content"
      BY <3>1 DEF Fetch, FetchPhase, InRust, Session
    <3>3. fetch' = [fetch EXCEPT ![f] = r]
      BY <1>2 DEF IInv, TypeOK
    <3> HIDE DEF r
    <3> QED BY <3>2, <3>3 DEF Only, IInv, TypeOK
  <2>2. client.auth = "restored" /\ validations = 0
    BY <1>2 DEF Recheck, IInv, TrustsComplete, UsableByNow, HasUsable, ValidatesOnce, TypeOK,
                Client
  <2>3. \A g \in Fetchers : fetch'[g].phase = "content" <=> mutex' = g
    BY <1>2, <2>1, NoOneAssumption DEF Recheck, IInv, TypeOK, Only
  <2>4. TypeOK'
    <3>1. UNCHANGED <<setup, vtop, deaths, jar, client, dropped, login, relogin, generation>>
      BY <1>2 DEF Recheck
    <3>2. validations' \in Nat /\ mutex' \in Fetchers \cup {NoOne}
      BY <1>2, CountKept DEF IInv, TypeOK
    <3>3. fetch' \in [Fetchers -> Fetch]
      BY <2>1 DEF Only
    <3> QED BY <2>3, <3>1, <3>2, <3>3 DEF IInv, TypeOK
  <2>5. LockExcludes' /\ TrustsComplete' /\ LoginHolds'
    BY <1>2, <2>1
       DEF Recheck, IInv, LockExcludes, TrustsComplete, LoginHolds, Readers, InRust, Only
  <2>6. CarriesJar' /\ ChecksRestored' /\ ServerOnly'
    BY <1>2, <2>1, <2>2
       DEF Recheck, IInv, CarriesJar, ChecksRestored, ServerOnly, Only, onServer
  <2>7. ValidatesOnce'
    BY <1>2, <2>2, NoOneAssumption DEF ValidatesOnce, OneValidation
  <2> QED BY <2>4, <2>5, <2>6, <2>7 DEF IInv
<1>3. CASE Expired(f) /\ UNCHANGED <<mutex, validations>>
  <2>1. fetch'[f].phase \notin InRust \cup {"content", "asking", "sent"}
    BY <1>3, ExpiredMoves DEF IInv, InRust
  <2>2. UNCHANGED <<setup, vtop, deaths, jar, client, dropped, mutex, validations, generation>>
    BY <1>3 DEF Recheck
  <2>3. fetch[f].phase # "content"
    BY DEF Recheck
  <2> QED BY <1>3, <2>1, <2>2, <2>3, ExpiredMoves, MoveKeeps DEF IInv
<1> QED BY <1>1, <1>2, <1>3 DEF Recheck

LEMMA ValidatedKeeps ==
  ASSUME IInv, NEW f \in Fetchers, Validated(f)
  PROVE  IInv'
<1>0. fetch[f].phase = "content" /\ mutex = f /\ mutex' = NoOne
  BY DEF Validated, IInv, TypeOK
<1>1. CASE ResetBy(f) /\ Expired(f)
  <2>1. fetch'[f].phase \notin InRust \cup {"asking"} /\ fetch[f].phase \in InRust
    BY <1>0, <1>1, ExpiredMoves DEF IInv, InRust
  <2>2. UNCHANGED <<setup, vtop, deaths, validations, generation>>
    BY DEF Validated
  <2> QED BY <1>0, <1>1, <2>1, <2>2, ExpiredMoves, ResetKeeps DEF IInv
<1>2. CASE /\ client' = LeaveExternal(SetAuthenticated(SetFields(client, fetch[f].cookie)))
           /\ fetch' = [fetch EXCEPT ![f] = Carrying(@, jar, @.cookie)]
           /\ UNCHANGED <<jar, dropped, login, relogin>>
  <2>0. fetch[f].cookie \in Session
    BY DEF IInv, TypeOK, Fetch, Session
  <2>1. Only(f) /\ fetch'[f].phase = "sent" /\ fetch'[f].cookie = jar
    BY <1>2, <2>0, SentMoves DEF IInv, TypeOK
  <2>2. /\ client' \in Client /\ client'.auth # "restored"
        /\ client'.auth = "authenticated" => client'.csrf # None /\ client'.regno
        /\ client'.stage = "otp" => client.stage = "otp"
    BY <1>2, <2>0, FieldsComplete DEF IInv, TypeOK
  <2>3. \A g \in Fetchers : fetch'[g].phase # "content"
    BY <1>0, <2>1 DEF IInv, TypeOK, Only
  <2>4. TypeOK'
    <3>1. UNCHANGED <<setup, vtop, deaths, jar, validations, dropped, login, relogin, generation>>
      BY <1>2 DEF Validated
    <3>2. mutex' \in Fetchers \cup {NoOne} /\ \A g \in Fetchers : mutex' # g
      BY <1>0, NoOneAssumption
    <3>3. fetch' \in [Fetchers -> Fetch]
      BY <2>1 DEF Only
    <3> QED BY <2>2, <2>3, <3>1, <3>2, <3>3 DEF IInv, TypeOK
  <2>5. login.phase \notin Writing
    BY <1>0 DEF IInv, LockExcludes, Readers, InRust
  <2>6. LockExcludes' /\ LoginHolds'
    BY <1>2, <2>2, <2>5 DEF IInv, LockExcludes, LoginHolds, Writing
  <2>7. CarriesJar' /\ ChecksRestored' /\ ServerOnly'
    BY <1>2, <2>1, <2>3
       DEF Validated, IInv, CarriesJar, ChecksRestored, ServerOnly, Only, onServer
  <2>8. TrustsComplete' /\ ValidatesOnce'
    BY <2>2 DEF Validated, IInv, TrustsComplete, ValidatesOnce, OneValidation
  <2> QED BY <2>4, <2>6, <2>7, <2>8 DEF IInv
<1> QED BY <1>1, <1>2 DEF Validated

LEMMA ResendKeeps ==
  ASSUME IInv, NEW f \in Fetchers, Resend(f)
  PROVE  IInv'
<1>1. fetch[f] \in Fetch /\ jar \in Session
  BY DEF IInv, TypeOK, Session
<1> DEFINE r == [fetch[f] EXCEPT !.cookie = jar, !.resent = TRUE]
<1>2. r \in Fetch /\ r.phase = "sent" /\ r.cookie = jar
  BY <1>1 DEF Resend, Fetch, Session
<1>3. fetch' = [fetch EXCEPT ![f] = r]
  BY DEF Resend, IInv, TypeOK
<1> HIDE DEF r
<1>4. Only(f) /\ fetch'[f].phase = "sent" /\ fetch'[f].cookie = jar
  BY <1>2, <1>3 DEF Only, IInv, TypeOK
<1> QED BY <1>4, MoveKeeps DEF Resend, IInv, TypeOK, InRust

LEMMA AnswerKeeps ==
  ASSUME IInv, NEW f \in Fetchers, Answer(f)
  PROVE  IInv'
<1>0. fetch[f].phase = "sent" /\ fetch[f].phase \in InRust
  BY DEF Answer, InRust
<1>1. mutex # f /\ mutex' = IF mutex = f THEN NoOne ELSE mutex
  BY <1>0 DEF Answer, IInv, TypeOK
<1>2. UNCHANGED <<setup, vtop, deaths, mutex, validations, generation>>
  BY DEF Answer
<1>3. CASE ResetBy(f) /\ Expired(f)
  <2>1. fetch'[f].phase \notin InRust \cup {"asking"}
    BY <1>3, ExpiredMoves DEF IInv, InRust
  <2> QED BY <1>0, <1>1, <1>2, <1>3, <2>1, ExpiredMoves, ResetKeeps DEF IInv
<1>4. CASE ResetBy(f) /\ To(f, "failed") /\ UNCHANGED <<login, relogin>>
  <2>1. Only(f) /\ fetch'[f].phase \notin InRust \cup {"asking"}
    BY <1>4, ToMoves DEF IInv, FetchPhase, Ended, InRust
  <2> QED BY <1>0, <1>1, <1>2, <1>4, <2>1, ResetKeeps DEF IInv, TypeOK
<1>5. ASSUME NEW phase \in {"page", "failed"}, To(f, phase),
             UNCHANGED <<jar, client, dropped, login, relogin>>
      PROVE  IInv'
  <2>1. Only(f) /\ fetch'[f].phase = phase
    BY <1>5, ToMoves DEF IInv, FetchPhase, Ended
  <2> QED BY <1>0, <1>2, <1>5, <2>1, MoveKeeps DEF IInv, TypeOK, InRust
<1> QED BY <1>3, <1>4, <1>5 DEF Answer

LEMMA AskedServerKeeps ==
  ASSUME IInv, NEW f \in Fetchers, AskedServer(f)
  PROVE  IInv'
<1>0. fetch[f].phase = "asking" /\ UNCHANGED <<setup, deaths, mutex, generation>>
  BY DEF AskedServer
<1>1. ASSUME NEW phase \in {"page", "enter"}, To(f, phase),
             UNCHANGED <<vtop, jar, client, validations, dropped, login, relogin>>
      PROVE  IInv'
  <2>1. Only(f) /\ fetch'[f].phase = phase
    BY <1>1, ToMoves DEF IInv, FetchPhase, Ended
  <2> QED BY <1>0, <1>1, <2>1, MoveKeeps DEF IInv, TypeOK, InRust
<1>2. CASE Expired(f) /\ UNCHANGED <<vtop, jar, client, validations, dropped>>
  <2>1. fetch'[f].phase \notin InRust \cup {"content", "asking", "sent"}
    BY <1>2, ExpiredMoves DEF IInv, InRust
  <2> QED BY <1>0, <1>2, <2>1, ExpiredMoves, MoveKeeps DEF IInv
<1>3. CASE /\ MayRead
           /\ \E s \in Sessions :
                /\ vtop' = [vtop EXCEPT ![s] = "live"]
                /\ jar' = s
                /\ client' = Resumed(s, "signed", "young")
           /\ validations' = 0
           /\ GivesUp
           /\ To(f, "page")
           /\ UNCHANGED <<login, relogin>>
  <2>1. Only(f) /\ fetch'[f].phase = "page"
    BY <1>3, ToMoves DEF IInv, FetchPhase, Ended
  <2>2. PICK s \in Sessions : /\ vtop' = [vtop EXCEPT ![s] = "live"]
                              /\ jar' = s
                              /\ client' = Resumed(s, "signed", "young")
    BY <1>3
  <2>3. /\ client' \in Client /\ client'.auth = "authenticated"
        /\ client'.csrf # None /\ client'.regno
    BY <2>2, ResumedClient
  <2>4. \A g \in Fetchers : fetch'[g].phase = "content" <=> mutex' = g
    BY <1>0, <2>1 DEF IInv, TypeOK, Only
  <2>5. TypeOK'
    <3>1. vtop' \in [Sessions -> {"none", "open", "otp", "live", "dead"}]
      BY <2>2 DEF IInv, TypeOK
    <3>2. dropped' \subseteq Sessions
      BY <1>3 DEF IInv, TypeOK, GivesUp
    <3>3. fetch' \in [Fetchers -> Fetch] /\ jar' \in Sessions \cup {None}
      BY <2>1, <2>2 DEF Only
    <3> QED BY <1>0, <1>3, <2>3, <2>4, <3>1, <3>2, <3>3 DEF IInv, TypeOK
  <2>6. onServer /\ onServer'
    BY <1>0 DEF IInv, ServerOnly, onServer
  <2>7. CarriesJar' /\ ChecksRestored' /\ ServerOnly'
    BY <2>6 DEF CarriesJar, ChecksRestored, ServerOnly
  <2>8. LockExcludes' /\ LoginHolds'
    BY <1>3, <2>2, SessionsAssumption
       DEF LockExcludes, LoginHolds, MayRead, Writing, None
  <2>9. TrustsComplete' /\ ValidatesOnce'
    BY <1>3, <2>3 DEF TrustsComplete, ValidatesOnce, OneValidation
  <2> QED BY <2>5, <2>7, <2>8, <2>9 DEF IInv
<1> QED BY <1>1, <1>2, <1>3 DEF AskedServer
-----------------------------------------------------------------------------
(* The sign-in. After its end nothing of it is left; without it the        *)
(* fetches and the re-login stay.                                          *)
LEMMA EndedMoves ==
  ASSUME IInv, NEW s \in Session, LoginEnds(s)
  PROVE  /\ Settled
         /\ login' \in Login
         /\ login'.phase = "none" /\ ~login'.asked
         /\ relogin' \in {"none", "asked", "signed in"}
<1>1. /\ Settled /\ login' = NoLogin /\ login' \in Login
      /\ relogin' \in {"none", "asked", "signed in"}
  BY LoginEndsSettled DEF IInv
<1>2. NoLogin.phase = "none" /\ NoLogin.asked = FALSE
  BY DEF NoLogin
<1> QED BY <1>1, <1>2

LEMMA PhaseMoves ==
  ASSUME IInv, NEW phase \in LoginPhase, NEW asked \in BOOLEAN,
         login' = [login EXCEPT !.phase = phase, !.asked = asked],
         UNCHANGED <<fetch, relogin>>
  PROVE  /\ Settled
         /\ login' \in Login
         /\ login'.phase = phase /\ login'.asked = asked
         /\ relogin' \in {"none", "asked", "signed in"}
<1>1. login \in Login /\ relogin \in {"none", "asked", "signed in"}
  BY DEF IInv, TypeOK
<1>2. Settled
  BY UnchangedSettled DEF IInv
<1> QED BY <1>1, <1>2 DEF Login

LEMMA OnlyPhaseMoves ==
  ASSUME IInv, NEW phase \in LoginPhase, login' = [login EXCEPT !.phase = phase],
         UNCHANGED <<fetch, relogin>>
  PROVE  /\ Settled
         /\ login' \in Login
         /\ login'.phase = phase /\ login'.asked = login.asked
         /\ relogin' \in {"none", "asked", "signed in"}
<1>1. login \in Login /\ relogin \in {"none", "asked", "signed in"}
  BY DEF IInv, TypeOK
<1>2. Settled
  BY UnchangedSettled DEF IInv
<1> QED BY <1>1, <1>2 DEF Login

(* A step that leaves the client and what VTOP knows as they are.          *)
LEMMA IdleKeeps ==
  ASSUME IInv, Settled,
         UNCHANGED <<setup, vtop, deaths, jar, client, dropped, mutex, validations>>,
         login' \in Login, relogin' \in {"none", "asked", "signed in"}, generation' \in Nat,
         login'.phase \notin Writing,
         login'.phase = "server" \/ login'.asked => onServer
  PROVE  IInv'
<1>1. /\ vtop' \in [Sessions -> {"none", "open", "otp", "live", "dead"}]
      /\ deaths' \in 0..MaxDeaths /\ jar' \in Session /\ client' \in Client
      /\ dropped' \subseteq Sessions
  BY DEF IInv, TypeOK, Session
<1>2. TrustsComplete' /\ LoginHolds'
  BY DEF IInv, TrustsComplete, LoginHolds, Writing
<1> QED BY <1>1, <1>2, SettledKeeps

LEMMA ReloginDoneKeeps ==
  ASSUME IInv, ReloginDone
  PROVE  IInv'
<1>1. Settled
  <2>1. ASSUME NEW g \in Fetchers
        PROVE  /\ fetch'[g] \in Fetch
               /\ fetch'[g].cookie = fetch[g].cookie
               /\ \/ fetch'[g].phase = fetch[g].phase
                  \/ fetch[g].phase = "relogin" /\ fetch'[g].phase = "start"
    <3>1. fetch[g] \in Fetch
      BY DEF IInv, TypeOK
    <3>2. fetch'[g] = IF fetch[g].phase = "relogin"
                      THEN [fetch[g] EXCEPT !.phase = "start", !.retried = TRUE]
                      ELSE fetch[g]
      BY DEF ReloginDone
    <3> QED BY <3>1, <3>2 DEF Fetch, FetchPhase
  <2>2. fetch' \in [Fetchers -> Fetch]
    <3>1. fetch' = [g \in Fetchers |-> fetch'[g]]
      BY DEF ReloginDone
    <3> QED BY <2>1, <3>1
  <2> QED BY <2>1, <2>2 DEF Settled, InRust
<1>2. generation' \in Nat
  BY CountKept DEF ReloginDone, IInv, TypeOK
<1> QED BY <1>1, <1>2, SettledKeeps
       DEF ReloginDone, IInv, TypeOK, Session, LockExcludes, TrustsComplete, LoginHolds, ServerOnly

LEMMA WorldKeeps ==
  ASSUME IInv, (\E s \in Sessions : Drop(s)) \/ Age
  PROVE  IInv'
<1>1. Settled /\ UNCHANGED <<setup, jar, dropped, mutex, validations, login, relogin, generation>>
  BY UnchangedSettled DEF Drop, Age, IInv
<1>2. /\ vtop' \in [Sessions -> {"none", "open", "otp", "live", "dead"}]
      /\ deaths' \in 0..MaxDeaths
  <2>1. /\ vtop \in [Sessions -> {"none", "open", "otp", "live", "dead"}]
        /\ deaths \in 0..MaxDeaths
    BY DEF IInv, TypeOK
  <2>2. CASE \E s \in Sessions : Drop(s)
    <3>1. PICK s \in Sessions : vtop' = [vtop EXCEPT ![s] = "dead"]
      BY <2>2 DEF Drop
    <3>2. deaths < MaxDeaths /\ deaths' = deaths + 1
      BY <2>2 DEF Drop
    <3>3. deaths' \in 0..MaxDeaths
      BY <2>1, <3>2, StepsUpTo, MaxDeathsAssumption
    <3> QED BY <2>1, <3>1, <3>3
  <2>3. CASE Age
    BY <2>1, <2>3 DEF Age
  <2> QED BY <2>2, <2>3
<1>3. /\ client' \in Client /\ client'.auth = client.auth /\ client'.csrf = client.csrf
      /\ client'.regno = client.regno /\ client'.stage = client.stage
  BY DEF Drop, Age, IInv, TypeOK, Client
<1>4. TrustsComplete' /\ LoginHolds'
  BY <1>1, <1>3 DEF IInv, TrustsComplete, LoginHolds
<1>5. /\ jar' \in Session /\ dropped' \subseteq Sessions /\ login' \in Login
      /\ relogin' \in {"none", "asked", "signed in"} /\ generation' \in Nat
  BY <1>1 DEF IInv, TypeOK, Session
<1>6. /\ login'.phase \in Writing => Readers = {}
      /\ login'.phase = "server" \/ login'.asked => onServer
  BY <1>1 DEF IInv, LockExcludes, ServerOnly
<1> QED BY <1>1, <1>2, <1>3, <1>4, <1>5, <1>6, SettledKeeps

LEMMA LoginRunsKeeps ==
  ASSUME IInv, LoginRuns
  PROVE  IInv'
<1>0. /\ UNCHANGED <<setup, vtop, deaths, dropped, jar, client, mutex, validations, generation>>
      /\ jar \in Session /\ generation' \in Nat
  BY DEF LoginRuns, IInv, TypeOK, Session
<1>1. CASE LoginEnds(jar)
  BY <1>0, <1>1, EndedMoves, IdleKeeps DEF Writing
<1>2. ASSUME login' = [login EXCEPT !.phase = IF onServer THEN "server" ELSE "lock"],
             UNCHANGED <<fetch, relogin>>
      PROVE  IInv'
  <2>1. PICK phase \in {"server", "lock"} : /\ login' = [login EXCEPT !.phase = phase]
                                            /\ phase = "server" => onServer
    BY <1>2
  <2>2. /\ Settled /\ login' \in Login /\ relogin' \in {"none", "asked", "signed in"}
        /\ login'.phase = phase /\ login'.asked = login.asked
    BY <1>2, <2>1, OnlyPhaseMoves DEF LoginPhase
  <2> QED BY <1>0, <2>1, <2>2, IdleKeeps DEF Writing, IInv, ServerOnly
<1> QED BY <1>1, <1>2 DEF LoginRuns

LEMMA LoginBeginsKeeps ==
  ASSUME IInv, LoginBegins
  PROVE  IInv'
<1>1. /\ UNCHANGED <<setup, vtop, deaths, dropped, jar, mutex, validations, fetch, relogin,
                     generation>>
      /\ Readers = {}
      /\ client' = [client EXCEPT !.stage = "login"]
  BY DEF LoginBegins, NoFetchInside
<1>2. PICK phase \in {"restore", "open"} : /\ login' = [login EXCEPT !.phase = phase]
                                           /\ phase = "restore" => client.auth = "restored"
  BY DEF LoginBegins
<1>3. /\ Settled /\ login' \in Login /\ relogin' \in {"none", "asked", "signed in"}
      /\ login'.phase = phase /\ login'.asked = login.asked
  BY <1>1, <1>2, OnlyPhaseMoves DEF LoginPhase, Writing
<1>4. /\ client' \in Client /\ client'.auth = client.auth /\ client'.csrf = client.csrf
      /\ client'.regno = client.regno /\ client'.stage = "login"
  BY <1>1 DEF IInv, TypeOK, Client
<1>5. TrustsComplete' /\ LoginHolds'
  BY <1>2, <1>3, <1>4 DEF IInv, TrustsComplete, LoginHolds
<1>6. /\ vtop' \in [Sessions -> {"none", "open", "otp", "live", "dead"}]
      /\ deaths' \in 0..MaxDeaths /\ jar' \in Session /\ dropped' \subseteq Sessions
      /\ generation' \in Nat
  BY <1>1 DEF IInv, TypeOK, Session
<1>7. login'.phase # "server" /\ (login'.asked => onServer)
  BY <1>3 DEF IInv, ServerOnly
<1> QED BY <1>1, <1>3, <1>4, <1>5, <1>6, <1>7, SettledKeeps

LEMMA LoginRestoresKeeps ==
  ASSUME IInv, LoginRestores
  PROVE  IInv'
<1>1. /\ UNCHANGED <<setup, vtop, deaths, dropped, mutex, validations, generation>>
      /\ Readers = {} /\ client.ext \in Session /\ jar \in Session
  BY DEF LoginRestores, IInv, LockExcludes, Writing, TypeOK, Client, Session
<1>2. /\ vtop' \in [Sessions -> {"none", "open", "otp", "live", "dead"}]
      /\ deaths' \in 0..MaxDeaths /\ dropped' \subseteq Sessions /\ generation' \in Nat
  BY <1>1 DEF IInv, TypeOK
<1>3. CASE /\ client' = [LeaveExternal(SetAuthenticated(SetFields(client, client.ext)))
                           EXCEPT !.stage = "idle"]
           /\ jar' = jar
           /\ LoginEnds(jar)
  <2> DEFINE d == LeaveExternal(SetAuthenticated(SetFields(client, client.ext)))
  <2>1. d \in Client /\ d.auth # "restored" /\ (d.auth = "authenticated" => d.csrf # None /\ d.regno)
    BY <1>1, FieldsComplete DEF IInv, TypeOK
  <2>2. client' = [d EXCEPT !.stage = "idle"]
    BY <1>3
  <2> HIDE DEF d
  <2>3. /\ client' \in Client /\ client'.stage = "idle" /\ client'.auth # "restored"
        /\ client'.auth = "authenticated" => client'.csrf # None /\ client'.regno
    BY <2>1, <2>2 DEF Client
  <2>4. /\ Settled /\ login' \in Login /\ login'.phase = "none" /\ ~login'.asked
        /\ relogin' \in {"none", "asked", "signed in"}
    BY <1>1, <1>3, EndedMoves
  <2>5. TrustsComplete' /\ LoginHolds'
    BY <2>3, <2>4 DEF TrustsComplete, LoginHolds
  <2> QED BY <1>1, <1>2, <1>3, <2>3, <2>4, <2>5, SettledKeeps
<1>4. CASE /\ Reset
           /\ login' = [login EXCEPT !.phase = "open"]
           /\ UNCHANGED <<fetch, relogin>>
  <2>1. /\ client' \in Client /\ client'.auth = "anonymous" /\ client'.stage = "idle"
        /\ jar' = None /\ jar' \in Session
    BY <1>4, ClearedClient DEF Reset, Cleared, Session
  <2>2. /\ Settled /\ login' \in Login /\ relogin' \in {"none", "asked", "signed in"}
        /\ login'.phase = "open" /\ login'.asked = login.asked
    BY <1>4, OnlyPhaseMoves DEF LoginPhase, Writing
  <2>3. TrustsComplete' /\ LoginHolds'
    BY <2>1, <2>2 DEF TrustsComplete, LoginHolds
  <2>4. login'.phase # "server" /\ (login'.asked => onServer)
    BY <2>2 DEF IInv, ServerOnly
  <2> QED BY <1>1, <1>2, <2>1, <2>2, <2>3, <2>4, SettledKeeps
<1> QED BY <1>3, <1>4 DEF LoginRestores

LEMMA LoginOpensKeeps ==
  ASSUME IInv, LoginOpens
  PROVE  IInv'
<1>1. /\ UNCHANGED <<setup, deaths, mutex, validations, generation>>
      /\ Readers = {} /\ jar \in Session
  BY DEF LoginOpens, IInv, LockExcludes, Writing, TypeOK, Session
<1>2. CASE /\ \E s \in Sessions :
                /\ vtop' = [vtop EXCEPT ![s] = "open"]
                /\ jar' = s
                /\ client' = SetCsrf(client, s)
           /\ GivesUp
           /\ login' = [login EXCEPT !.phase = "post"]
           /\ UNCHANGED <<fetch, relogin>>
  <2>1. PICK s \in Sessions : /\ vtop' = [vtop EXCEPT ![s] = "open"]
                              /\ jar' = s
                              /\ client' = SetCsrf(client, s)
    BY <1>2
  <2>2. s # None
    BY SessionsAssumption DEF None
  <2>3. /\ client' \in Client /\ client'.auth = client.auth /\ client'.csrf = s
        /\ client'.regno = client.regno
    BY <2>1 DEF SetCsrf, IInv, TypeOK, Client
  <2>4. /\ Settled /\ login' \in Login /\ relogin' \in {"none", "asked", "signed in"}
        /\ login'.phase = "post" /\ login'.asked = login.asked
    BY <1>2, OnlyPhaseMoves DEF LoginPhase, Writing
  <2>5. TrustsComplete' /\ LoginHolds'
    BY <2>1, <2>2, <2>3, <2>4 DEF IInv, TrustsComplete, LoginHolds
  <2>6. login'.phase # "server" /\ (login'.asked => onServer)
    BY <2>4 DEF IInv, ServerOnly
  <2>7. /\ vtop' \in [Sessions -> {"none", "open", "otp", "live", "dead"}]
        /\ deaths' \in 0..MaxDeaths /\ dropped' \subseteq Sessions /\ generation' \in Nat
        /\ jar' \in Session
    BY <1>1, <1>2, <2>1 DEF IInv, TypeOK, GivesUp, Session
  <2> QED BY <1>1, <2>3, <2>4, <2>5, <2>6, <2>7, SettledKeeps
<1>3. CASE jar' = jar /\ LoginEnds(None) /\ UNCHANGED <<vtop, client, dropped>>
  BY <1>1, <1>3, EndedMoves, IdleKeeps DEF IInv, TypeOK, Writing, Session
<1> QED BY <1>2, <1>3 DEF LoginOpens

LEMMA LoginPostsKeeps ==
  ASSUME IInv, LoginPosts
  PROVE  IInv'
<1>1. /\ UNCHANGED <<setup, dropped, deaths, mutex, validations, generation, jar>>
      /\ Readers = {} /\ jar \in Session /\ jar # None
  BY DEF LoginPosts, IInv, LockExcludes, LoginHolds, Writing, TypeOK, Session
<1>2. /\ deaths' \in 0..MaxDeaths /\ dropped' \subseteq Sessions /\ generation' \in Nat
      /\ jar' \in Session /\ vtop \in [Sessions -> {"none", "open", "otp", "live", "dead"}]
  BY <1>1 DEF IInv, TypeOK, Session
<1>3. CASE /\ vtop' = [vtop EXCEPT ![jar] = "live"]
           /\ client' = Finish(SetFields(client, jar))
           /\ LoginEnds(jar)
  <2>1. /\ client' \in Client /\ client'.auth # "restored"
        /\ client'.auth = "authenticated" => client'.csrf # None /\ client'.regno
    BY <1>1, <1>3, FieldsComplete DEF IInv, TypeOK
  <2>2. /\ Settled /\ login' \in Login /\ login'.phase = "none" /\ ~login'.asked
        /\ relogin' \in {"none", "asked", "signed in"}
    BY <1>1, <1>3, EndedMoves
  <2>3. TrustsComplete' /\ LoginHolds'
    BY <1>1, <2>1, <2>2 DEF TrustsComplete, LoginHolds
  <2>4. vtop' \in [Sessions -> {"none", "open", "otp", "live", "dead"}]
    BY <1>2, <1>3
  <2> QED BY <1>1, <1>2, <2>1, <2>2, <2>3, <2>4, SettledKeeps
<1>4. CASE /\ vtop' = [vtop EXCEPT ![jar] = "otp"]
           /\ client' = [SetCsrf(client, jar) EXCEPT !.stage = "otp"]
           /\ login' = [login EXCEPT !.phase = "otp"]
           /\ UNCHANGED <<fetch, relogin>>
  <2>1. /\ client' \in Client /\ client'.auth = client.auth /\ client'.csrf = jar
        /\ client'.regno = client.regno
    BY <1>1, <1>4 DEF SetCsrf, IInv, TypeOK, Client, Session
  <2>2. /\ Settled /\ login' \in Login /\ relogin' \in {"none", "asked", "signed in"}
        /\ login'.phase = "otp" /\ login'.asked = login.asked
    BY <1>4, OnlyPhaseMoves DEF LoginPhase
  <2>3. TrustsComplete' /\ LoginHolds'
    BY <1>1, <2>1, <2>2 DEF IInv, TrustsComplete, LoginHolds
  <2>4. vtop' \in [Sessions -> {"none", "open", "otp", "live", "dead"}]
    BY <1>2, <1>4
  <2>5. login'.phase \notin Writing /\ login'.phase # "server" /\ (login'.asked => onServer)
    BY <2>2 DEF IInv, ServerOnly, Writing
  <2> QED BY <1>1, <1>2, <2>1, <2>2, <2>3, <2>4, <2>5, SettledKeeps
<1>5. CASE LoginEnds(None) /\ UNCHANGED <<vtop, client>>
  BY <1>1, <1>2, <1>5, EndedMoves, IdleKeeps DEF Writing, Session
<1> QED BY <1>3, <1>4, <1>5 DEF LoginPosts

LEMMA LoginOnServerKeeps ==
  ASSUME IInv, LoginOnServer
  PROVE  IInv'
<1>1. /\ UNCHANGED <<setup, deaths, mutex, generation>>
      /\ onServer /\ jar \in Session
  BY DEF LoginOnServer, IInv, ServerOnly, TypeOK, Session
<1>2. ASSUME NEW s \in Sessions, NEW kind \in {"signed", "otp"},
             vtop' = [vtop EXCEPT ![s] = IF kind = "signed" THEN "live" ELSE "otp"],
             jar' = s,
             client' = Resumed(s, kind, IF kind = "signed" THEN "young" ELSE "unknown"),
             validations' = 0, GivesUp,
             IF kind = "signed"
             THEN LoginEnds(s)
             ELSE /\ login' = [login EXCEPT !.phase = "otp", !.asked = TRUE]
                  /\ UNCHANGED <<fetch, relogin>>
      PROVE  IInv'
  <2>1. /\ client' \in Client /\ client'.auth # "restored"
        /\ client'.auth = "authenticated" => client'.csrf # None /\ client'.regno
    <3>1. PICK age \in {"unknown", "young", "old"} : client' = Resumed(s, kind, age)
      BY <1>2
    <3>2. kind = "signed" \/ kind = "otp"
      BY <1>2
    <3> QED BY <3>1, <3>2, ResumedClient
  <2>2. /\ Settled /\ login' \in Login /\ login'.phase \in {"none", "otp"}
        /\ relogin' \in {"none", "asked", "signed in"}
    <3>1. CASE LoginEnds(s)
      BY <3>1, EndedMoves DEF Session
    <3>2. CASE /\ login' = [login EXCEPT !.phase = "otp", !.asked = TRUE]
               /\ UNCHANGED <<fetch, relogin>>
      BY <3>2, PhaseMoves DEF LoginPhase
    <3> QED BY <1>2, <3>1, <3>2
  <2>3. TrustsComplete' /\ LoginHolds'
    BY <1>2, <2>1, <2>2, SessionsAssumption DEF TrustsComplete, LoginHolds, None
  <2>4. /\ vtop' \in [Sessions -> {"none", "open", "otp", "live", "dead"}]
        /\ deaths' \in 0..MaxDeaths /\ dropped' \subseteq Sessions /\ generation' \in Nat
        /\ jar' \in Session
    BY <1>1, <1>2 DEF IInv, TypeOK, GivesUp, Session
  <2> QED BY <1>1, <1>2, <2>1, <2>2, <2>3, <2>4, SettledKeeps DEF Writing
<1>3. ASSUME jar' = jar, UNCHANGED <<vtop, client, validations, dropped>>,
             \/ LoginEnds(None)
             \/ login' = [login EXCEPT !.phase = "lock"] /\ UNCHANGED <<fetch, relogin>>
      PROVE  IInv'
  <2>1. /\ Settled /\ login' \in Login /\ login'.phase \in {"none", "lock"}
        /\ relogin' \in {"none", "asked", "signed in"}
    <3>1. CASE LoginEnds(None)
      BY <3>1, EndedMoves DEF Session
    <3>2. CASE login' = [login EXCEPT !.phase = "lock"] /\ UNCHANGED <<fetch, relogin>>
      BY <3>2, OnlyPhaseMoves DEF LoginPhase
    <3> QED BY <1>3, <3>1, <3>2
  <2> QED BY <1>1, <1>3, <2>1, IdleKeeps DEF IInv, TypeOK, Writing
<1> QED BY <1>2, <1>3 DEF LoginOnServer

(* Whatever became of the code, the sign-in is over.                       *)
LEMMA OtpTakenMoves ==
  ASSUME IInv, OtpTaken, jar # None
  PROVE  /\ \E s \in Session : LoginEnds(s)
         /\ vtop' \in [Sessions -> {"none", "open", "otp", "live", "dead"}]
         /\ jar' \in {jar, None}
         /\ client' \in Client
         /\ client'.auth = "restored" => client.auth = "restored"
         /\ client'.auth = "authenticated" => client'.csrf # None /\ client'.regno
         /\ client'.stage = "otp" => jar' # None
<1> DEFINE opened == SetFields(client, jar)
           checked == IF client.ext # None THEN client.ext ELSE jar
<1>1. /\ client \in Client /\ jar \in Session /\ checked \in Session
      /\ vtop \in [Sessions -> {"none", "open", "otp", "live", "dead"}]
  BY DEF IInv, TypeOK, Client, Session
<1>2. opened \in Client /\ opened.auth = client.auth /\ opened.csrf = jar /\ opened.regno
  BY <1>1 DEF SetFields, Client, Session
<1>3. vtop' \in [Sessions -> {"none", "open", "otp", "live", "dead"}]
  BY <1>1 DEF OtpTaken
<1> HIDE DEF checked
<1>4. CASE client' = Finish(opened) /\ jar' = jar /\ LoginEnds(jar)
  BY <1>1, <1>3, <1>4, FieldsComplete
<1> HIDE DEF opened
<1>5. CASE /\ client' = Finish(SetAuthenticated(SetFields(opened, checked)))
           /\ jar' = jar /\ LoginEnds(jar)
  <2> DEFINE c == SetFields(opened, checked)
             d == Finish(SetAuthenticated(c))
  <2>1. c \in Client /\ c.csrf = checked /\ c.regno
    BY <1>1, <1>2 DEF SetFields, Client, Session
  <2> HIDE DEF c
  <2>2. /\ d \in Client /\ d.auth # "restored"
        /\ d.auth = "authenticated" => d.csrf # None /\ d.regno
    BY <2>1 DEF SetAuthenticated, Finish, LeaveExternal, Client
  <2>3. client' = d
    BY <1>5 DEF c
  <2> HIDE DEF d
  <2> QED BY <1>1, <1>3, <1>5, <2>2, <2>3
<1>6. CASE Reset /\ LoginEnds(None)
  BY <1>3, <1>6, ClearedClient DEF Reset, Cleared, Session
<1>7. CASE client' = opened /\ jar' = jar /\ LoginEnds(None)
  BY <1>1, <1>2, <1>3, <1>7 DEF Session
<1> QED BY <1>4, <1>5, <1>6, <1>7 DEF OtpTaken, opened, checked

LEMMA OtpOnPhoneKeeps ==
  ASSUME IInv, OtpOnPhone
  PROVE  IInv'
<1>1. /\ UNCHANGED <<setup, dropped, deaths, mutex, validations, generation>>
      /\ Readers = {} /\ jar \in Session
      /\ deaths' \in 0..MaxDeaths /\ dropped' \subseteq Sessions /\ generation' \in Nat
  BY DEF OtpOnPhone, NoFetchInside, IInv, TypeOK, Session
<1>2. CASE OtpPending /\ OtpTaken
  <2>1. jar # None
    BY <1>2 DEF OtpPending, IInv, LoginHolds
  <2>2. PICK s \in Session : LoginEnds(s)
    BY <1>2, <2>1, OtpTakenMoves
  <2>3. /\ Settled /\ login' \in Login /\ login'.phase = "none" /\ ~login'.asked
        /\ relogin' \in {"none", "asked", "signed in"}
    BY <2>2, EndedMoves
  <2>4. /\ vtop' \in [Sessions -> {"none", "open", "otp", "live", "dead"}]
        /\ jar' \in {jar, None} /\ jar' \in Session
        /\ client' \in Client
        /\ client'.auth = "restored" => client.auth = "restored"
    BY <1>1, <1>2, <2>1, OtpTakenMoves DEF Session
  <2>5. TrustsComplete' /\ LoginHolds'
    BY <1>2, <2>1, <2>3, OtpTakenMoves DEF TrustsComplete, LoginHolds
  <2> QED BY <1>1, <2>3, <2>4, <2>5, SettledKeeps DEF Writing
<1>3. CASE jar' = jar /\ LoginEnds(None) /\ UNCHANGED <<vtop, client>>
  BY <1>1, <1>3, EndedMoves, IdleKeeps DEF Writing, Session
<1> QED BY <1>2, <1>3 DEF OtpOnPhone

LEMMA OtpOnServerKeeps ==
  ASSUME IInv, OtpOnServer
  PROVE  IInv'
<1>1. /\ UNCHANGED <<setup, dropped, deaths, mutex, generation, jar>>
      /\ onServer /\ jar \in Session /\ jar' \in Session
      /\ deaths' \in 0..MaxDeaths /\ dropped' \subseteq Sessions /\ generation' \in Nat
  BY DEF OtpOnServer, IInv, ServerOnly, TypeOK, Session
<1>2. CASE /\ jar # None
           /\ vtop' = [vtop EXCEPT ![jar] = "live"]
           /\ client' = Resumed(jar, "signed", "young")
           /\ validations' = 0
           /\ LoginEnds(jar)
  <2>1. /\ client' \in Client /\ client'.auth = "authenticated"
        /\ client'.csrf # None /\ client'.regno
    BY <1>1, <1>2, ResumedClient DEF Session
  <2>2. /\ Settled /\ login' \in Login /\ login'.phase = "none" /\ ~login'.asked
        /\ relogin' \in {"none", "asked", "signed in"}
    BY <1>1, <1>2, EndedMoves
  <2>3. TrustsComplete' /\ LoginHolds'
    BY <1>1, <1>2, <2>1, <2>2 DEF TrustsComplete, LoginHolds
  <2>4. vtop' \in [Sessions -> {"none", "open", "otp", "live", "dead"}]
    BY <1>2 DEF IInv, TypeOK
  <2> QED BY <1>1, <1>2, <2>1, <2>2, <2>3, <2>4, SettledKeeps DEF Writing
<1>3. CASE LoginEnds(None) /\ UNCHANGED <<vtop, client, validations>>
  BY <1>1, <1>3, EndedMoves, IdleKeeps DEF Writing, Session
<1> QED BY <1>1, <1>2, <1>3 DEF OtpOnServer
-----------------------------------------------------------------------------
(* All steps together.                                                     *)
LEMMA StepInv == IInv /\ [Next]_vars => IInv'
<1> SUFFICES ASSUME IInv, [Next]_vars PROVE IInv'
  OBVIOUS
<1>1. CASE UNCHANGED vars
  <2>1. Settled
    BY <1>1, UnchangedSettled DEF vars, IInv
  <2>2. /\ UNCHANGED <<setup, vtop, deaths, jar, client, dropped, mutex, validations>>
        /\ UNCHANGED <<fetch, login, relogin, generation>>
    BY <1>1 DEF vars
  <2>3. TypeOK' /\ LockExcludes' /\ CarriesJar' /\ ChecksRestored'
    BY <2>2 DEF IInv, TypeOK, LockExcludes, CarriesJar, ChecksRestored, Readers, onServer
  <2>4. TrustsComplete' /\ LoginHolds' /\ ServerOnly' /\ ValidatesOnce'
    BY <2>2 DEF IInv, TrustsComplete, LoginHolds, ServerOnly, ValidatesOnce, OneValidation, onServer
  <2> QED BY <2>3, <2>4 DEF IInv
<1>2. ASSUME NEW f \in Fetchers, FetchStep(f) PROVE IInv'
  BY <1>2, QueueKeeps, EnsureKeeps, StartKeeps, EnterKeeps, RecheckKeeps, ValidatedKeeps,
     ResendKeeps, AnswerKeeps, AskedServerKeeps DEF FetchStep
<1>3. CASE LoginStep
  BY <1>3, LoginRunsKeeps, LoginBeginsKeeps, LoginRestoresKeeps, LoginOpensKeeps,
     LoginPostsKeeps, LoginOnServerKeeps, OtpOnPhoneKeeps, OtpOnServerKeeps,
     ReloginDoneKeeps DEF LoginStep
<1>4. CASE (\E s \in Sessions : Drop(s)) \/ Age
  BY <1>4, WorldKeeps
<1> QED BY <1>1, <1>2, <1>3, <1>4 DEF Next

LEMMA Invariant == Spec => []IInv
BY InitInv, StepInv, PTL DEF Spec

(* The state of the phone's client keeps its types, and the holder of the  *)
(* validation mutex is the fetch that validates.                           *)
THEOREM TypeCorrect == Spec => []TypeOK
<1>1. IInv => TypeOK
  BY DEF IInv
<1> QED BY <1>1, Invariant, PTL

(* client/mod.rs, VtopClient.validation: the fetches that meet a restored  *)
(* session at once ask for /vtop/content at most once for it.              *)
THEOREM ValidatedOnce == Spec => []OneValidation
<1>1. IInv => OneValidation
  BY DEF IInv, ValidatesOnce
<1> QED BY <1>1, Invariant, PTL

(* What a step drops.                                                      *)
LEMMA FetchDropsOwn ==
  ASSUME IInv, NEW f \in Fetchers, FetchStep(f)
  PROVE  OwnDrop
<1> SUFFICES ASSUME client.auth = "authenticated", jar # None, jar' = None, ~onServer
             PROVE  \E g \in Fetchers : /\ fetch[g].phase \in InRust
                                        /\ fetch[g].cookie = jar
                                        /\ fetch'[g].phase \notin InRust
  BY DEF OwnDrop
<1>1. ~Queue(f) /\ ~Ensure(f) /\ ~Start(f) /\ ~Enter(f) /\ ~Recheck(f) /\ ~Resend(f)
  BY DEF Queue, Ensure, Start, Enter, Recheck, Resend
<1>2. ~Validated(f)
  BY DEF Validated, IInv, ChecksRestored
<1>3. ~AskedServer(f)
  BY DEF AskedServer, IInv, ServerOnly
<1>4. Answer(f)
  BY <1>1, <1>2, <1>3 DEF FetchStep
<1>5. fetch[f].phase = "sent" /\ fetch[f].cookie = jar
  BY <1>4 DEF Answer, IInv, CarriesJar
<1>6. Expired(f) \/ \E phase \in {"page", "failed"} : To(f, phase)
  BY <1>4 DEF Answer
<1>7. fetch'[f].phase \notin InRust
  BY <1>6, ExpiredMoves, ToMoves DEF IInv, FetchPhase, Ended, InRust
<1> QED BY <1>5, <1>7 DEF InRust

LEMMA LoginDropsOwn ==
  ASSUME IInv, LoginStep
  PROVE  OwnDrop
<1> SUFFICES ASSUME client.auth = "authenticated", jar # None, jar' = None,
                    login.phase # "otp"
             PROVE  FALSE
  BY DEF OwnDrop
<1>1. ~LoginRuns /\ ~LoginBegins /\ ~LoginPosts /\ ~ReloginDone
  BY DEF LoginRuns, LoginBegins, LoginPosts, ReloginDone
<1>2. ~OtpOnPhone /\ ~OtpOnServer
  BY DEF OtpOnPhone, OtpOnServer
<1>3. ~LoginRestores
  BY DEF LoginRestores, IInv, LoginHolds
<1>4. ~LoginOpens /\ ~LoginOnServer
  BY SessionsAssumption DEF LoginOpens, LoginOnServer, None
<1> QED BY <1>1, <1>2, <1>3, <1>4 DEF LoginStep

(* On the phone a signed-in session is dropped only by the answer to a     *)
(* request that carried it or by the check after an OTP.                   *)
THEOREM OwnSessionDropped == Spec => OnlyOwnDropped
<1>1. IInv /\ [Next]_vars => [OwnDrop]_vars
  <2> SUFFICES ASSUME IInv, Next PROVE OwnDrop
    OBVIOUS
  <2>1. CASE (\E s \in Sessions : Drop(s)) \/ Age
    BY <2>1 DEF Drop, Age, OwnDrop
  <2> QED BY <2>1, FetchDropsOwn, LoginDropsOwn DEF Next
<1> QED BY <1>1, Invariant, PTL DEF Spec, OnlyOwnDropped
-----------------------------------------------------------------------------
(***************************************************************************)
(* On the phone, a fetch that met a sign-in ends as expired only when the  *)
(* session made there is dead or was given up.                             *)
(*                                                                         *)
(* That session is the client's from the end of the sign-in until it is    *)
(* given up: nobody but the answer to a request that carries it, and the   *)
(* next sign-in, takes it from a client that is signed in (Held).  And a   *)
(* session that is dead stays so: VTOP makes live what a sign-in has just  *)
(* opened, or what waits for a code (SignsIn).                             *)
(***************************************************************************)
GivenUp(s) == vtop[s] = "dead" \/ s \in dropped

Held(s) == jar = s /\ client.auth = "authenticated" /\ login.phase \notin {"post", "otp"}

Meets(f) ==
  LET s == fetch[f].met
  IN /\ fetch[f].phase = "idle" => s = None
     /\ s # None /\ fetch[f].phase \notin Ended => GivenUp(s) \/ Held(s)
     /\ s # None /\ fetch[f].phase = "expired" => GivenUp(s)

SignsIn ==
  /\ login.phase = "post" => vtop[jar] = "open"
  /\ login.phase = "otp" /\ client.stage = "otp" => vtop[jar] = "otp"

MetInv == ~onServer => SignsIn /\ \A f \in Fetchers : Meets(f)

LEMMA MetRetries == MetInv => RetriesOnNew
BY DEF MetInv, Meets, RetriesOnNew, GivenUp

LEMMA InitMet == Init => MetInv
BY DEF Init, MetInv, Meets, SignsIn, NoLogin

(* What a step leaves of the sessions that were made.                      *)
Steady ==
  /\ SignsIn'
  /\ \A s \in Sessions : /\ GivenUp(s) => GivenUp(s)'
                         /\ Held(s) => Held(s)' \/ GivenUp(s)'

Same(f) == fetch'[f].met = fetch[f].met /\ fetch'[f].phase = fetch[f].phase

(* A fetch goes on with what it met, and does not expire while the client  *)
(* is signed in.                                                           *)
Moves(f) ==
  /\ fetch'[f].met = fetch[f].met
  /\ fetch[f].phase \notin Ended /\ fetch'[f].phase # "idle"
  /\ fetch'[f].phase = "expired" => client'.auth # "authenticated"

(* A fetch meets a sign-in.                                                *)
Renewed(f) ==
  \E s \in Sessions : /\ fetch'[f].phase \notin {"idle", "expired"}
                      /\ fetch'[f].met = s
                      /\ Held(s)'

LEMMA MetKeeps ==
  ASSUME IInv, MetInv, ~onServer, Steady,
         \A f \in Fetchers : Same(f) \/ Moves(f) \/ Renewed(f)
  PROVE  MetInv'
<1> SUFFICES ASSUME NEW f \in Fetchers PROVE Meets(f)'
  BY DEF MetInv, Steady
<1>1. fetch[f].met \in Session
  BY DEF IInv, TypeOK, Fetch, Session
<1>2. Meets(f)
  BY DEF MetInv
<1>3. CASE Same(f)
  BY <1>1, <1>2, <1>3 DEF Same, Meets, Steady, Session
<1>4. CASE Moves(f)
  <2>1. fetch[f].met # None => GivenUp(fetch[f].met)' \/ Held(fetch[f].met)'
    BY <1>1, <1>2, <1>4 DEF Moves, Meets, Steady, Session
  <2>2. fetch'[f].phase = "expired" => ~Held(fetch[f].met)'
    BY <1>4 DEF Moves, Held
  <2> QED BY <2>1, <2>2, <1>4 DEF Moves, Meets
<1>5. CASE Renewed(f)
  <2>1. PICK s \in Sessions : /\ fetch'[f].phase \notin {"idle", "expired"}
                              /\ fetch'[f].met = s
                              /\ Held(s)'
    BY <1>5 DEF Renewed
  <2> QED BY <2>1 DEF Meets
<1> QED BY <1>3, <1>4, <1>5

(* The session data, the jar and what VTOP and the client gave up stay.    *)
LEMMA SteadyStill ==
  ASSUME MetInv, ~onServer, UNCHANGED <<vtop, dropped, jar, client>>,
         login' = login \/ login'.phase \notin {"post", "otp"}
  PROVE  Steady
BY DEF MetInv, Steady, SignsIn, GivenUp, Held
-----------------------------------------------------------------------------
LEMMA ToMet ==
  ASSUME TypeOK, NEW f \in Fetchers, NEW phase \in FetchPhase, To(f, phase)
  PROVE  /\ fetch'[f].met = fetch[f].met /\ fetch'[f].phase = phase
         /\ \A g \in Fetchers : g # f => Same(g)
BY DEF TypeOK, To, Without, Same, Fetch, None

LEMMA ExpiredMet ==
  ASSUME TypeOK, NEW f \in Fetchers, Expired(f)
  PROVE  /\ fetch'[f].met = fetch[f].met /\ fetch'[f].phase \in {"expired", "start", "relogin"}
         /\ \A g \in Fetchers : g # f => Same(g)
         /\ login' = login \/ login'.phase = "queued"
<1>1. CASE To(f, "expired") /\ UNCHANGED <<login, relogin>>
  BY <1>1, ToMet DEF FetchPhase, Ended
<1>2. CASE /\ fetch' = [fetch EXCEPT ![f] = [Without(@, "start") EXCEPT !.retried = TRUE]]
           /\ UNCHANGED <<login, relogin>>
  BY <1>2 DEF TypeOK, Without, Same, Fetch
<1>3. CASE /\ To(f, "relogin")
           /\ IF relogin = "none"
              THEN relogin' = "asked" /\ JoinLogin(TRUE)
              ELSE UNCHANGED <<login, relogin>>
  <2>1. login' = login \/ login'.phase = "queued"
    BY <1>3, JoinKeeps
  <2> QED BY <1>3, <2>1, ToMet DEF FetchPhase, Waiting
<1> QED BY <1>1, <1>2, <1>3 DEF Expired

LEMMA SentMet ==
  ASSUME TypeOK, NEW f \in Fetchers, NEW cookie, NEW csrf,
         fetch' = [fetch EXCEPT ![f] = Carrying(@, cookie, csrf)]
  PROVE  /\ fetch'[f].met = fetch[f].met /\ fetch'[f].phase = "sent"
         /\ \A g \in Fetchers : g # f => Same(g)
BY DEF TypeOK, Carrying, Same, Fetch

(* The answer to a request that carries the client's session, or finds the *)
(* client not signed in, drops it.                                         *)
LEMMA ResetSteady ==
  ASSUME IInv, MetInv, ~onServer, NEW f \in Fetchers, ResetBy(f), fetch[f].phase \in {"sent", "content"},
         vtop' = vtop, login' = login \/ login'.phase = "queued"
  PROVE  Steady /\ client'.auth # "authenticated"
<1>1. jar' = None /\ client' = Cleared /\ client'.auth # "authenticated" /\ client'.stage # "otp"
  BY DEF ResetBy, Reset, Cleared
<1>2. login.phase \notin Writing
  BY DEF IInv, LockExcludes, Readers, InRust
<1>3. SignsIn'
  BY <1>1, <1>2 DEF SignsIn, Writing
<1>4. \A s \in Sessions : GivenUp(s) => GivenUp(s)'
  BY DEF GivenUp, ResetBy, GivesUp
<1>5. ASSUME NEW s \in Sessions, Held(s) PROVE GivenUp(s)'
  <2>1. jar = s /\ jar # None
    BY <1>5, SessionsAssumption DEF Held, None
  <2>2. fetch[f].cookie = jar
    BY <1>5, <2>1 DEF Held, IInv, CarriesJar, ChecksRestored
  <2> QED BY <2>1, <2>2 DEF ResetBy, GivesUp, GivenUp
<1> QED BY <1>1, <1>3, <1>4, <1>5 DEF Steady

LEMMA FetchMet ==
  ASSUME IInv, MetInv, ~onServer, NEW f \in Fetchers, FetchStep(f)
  PROVE  MetInv'
<1>1. TypeOK /\ fetch \in [Fetchers -> Fetch]
  BY DEF IInv, TypeOK
<1>2. CASE Queue(f)
  <2>1. Steady
    BY <1>2, SteadyStill DEF Queue
  <2>2. fetch[f].phase = "idle" /\ \E phase \in {"ensure", "behind"} : To(f, phase)
    BY <1>2 DEF Queue
  <2>3. Moves(f) /\ \A g \in Fetchers : g # f => Same(g)
    BY <2>2, <1>1, ToMet DEF Moves, FetchPhase, Waiting, Ended
  <2> QED BY <2>1, <2>3, MetKeeps
<1>3. CASE Ensure(f)
  <2>1. login' = login \/ login'.phase = "queued"
    BY <1>1, <1>3, JoinKeeps DEF Ensure
  <2>2. Steady
    BY <1>3, <2>1, SteadyStill DEF Ensure
  <2>3. fetch[f].phase = "ensure" /\ \E phase \in {"signing", "start"} : To(f, phase)
    BY <1>3 DEF Ensure
  <2>4. Moves(f) /\ \A g \in Fetchers : g # f => Same(g)
    BY <2>3, <1>1, ToMet DEF Moves, FetchPhase, Waiting, Ended
  <2> QED BY <2>2, <2>4, MetKeeps
<1>4. CASE Start(f)
  <2>1. Steady
    BY <1>4, SteadyStill DEF Start
  <2>2. fetch[f].phase = "start" /\ fetch' = [fetch EXCEPT ![f] = [Begun(@) EXCEPT !.phase = "enter"]]
    BY <1>4 DEF Start
  <2>3. Moves(f) /\ \A g \in Fetchers : g # f => Same(g)
    BY <2>2, <1>1 DEF Moves, Same, Begun, Fetch, Ended
  <2> QED BY <2>1, <2>3, MetKeeps
<1>5. CASE Enter(f)
  <2>1. Steady
    BY <1>5, SteadyStill DEF Enter
  <2>2. fetch[f].phase = "enter" /\ (Sent(f) \/ To(f, "mutex"))
    BY <1>5 DEF Enter
  <2>3. Moves(f) /\ \A g \in Fetchers : g # f => Same(g)
    BY <2>2, <1>1, ToMet, SentMet DEF Moves, Sent, FetchPhase, InRust, Ended
  <2> QED BY <2>1, <2>3, MetKeeps
<1>6. CASE Recheck(f)
  <2>0. fetch[f].phase = "mutex" /\ UNCHANGED <<vtop, dropped, jar, client>>
    BY <1>6 DEF Recheck
  <2>1. CASE Sent(f) /\ UNCHANGED login
    <3>1. Moves(f) /\ \A g \in Fetchers : g # f => Same(g)
      BY <2>0, <2>1, <1>1, SentMet DEF Moves, Sent, Ended
    <3> QED BY <2>0, <2>1, <3>1, SteadyStill, MetKeeps
  <2>2. CASE /\ fetch' = [fetch EXCEPT ![f].phase = "content", ![f].cookie = client.ext]
             /\ UNCHANGED login
    <3>1. Moves(f) /\ \A g \in Fetchers : g # f => Same(g)
      BY <2>0, <2>2, <1>1 DEF Moves, Same, Ended, Fetch
    <3> QED BY <2>0, <2>2, <3>1, SteadyStill, MetKeeps
  <2>3. CASE client.auth = "anonymous" /\ Expired(f)
    <3>1. /\ login' = login \/ login'.phase = "queued"
          /\ Moves(f) /\ \A g \in Fetchers : g # f => Same(g)
      BY <2>0, <2>3, <1>1, ExpiredMet DEF Moves, Ended
    <3> QED BY <2>0, <3>1, SteadyStill, MetKeeps
  <2> QED BY <1>6, <2>1, <2>2, <2>3 DEF Recheck
<1>7. CASE Validated(f)
  <2>0. fetch[f].phase = "content" /\ vtop' = vtop /\ client.auth # "authenticated"
    BY <1>7 DEF Validated, IInv, ChecksRestored
  <2>1. CASE /\ client' = LeaveExternal(SetAuthenticated(SetFields(client, fetch[f].cookie)))
             /\ fetch' = [fetch EXCEPT ![f] = Carrying(@, jar, @.cookie)]
             /\ UNCHANGED <<jar, dropped, login, relogin>>
    <3>1. client'.stage = client.stage
      BY <2>1 DEF LeaveExternal, SetAuthenticated, SetFields, IInv, TypeOK, Client
    <3>2. Steady
      BY <2>0, <2>1, <3>1 DEF Steady, MetInv, SignsIn, GivenUp, Held
    <3>3. Moves(f) /\ \A g \in Fetchers : g # f => Same(g)
      BY <2>0, <2>1, <1>1, SentMet DEF Moves, Ended
    <3> QED BY <3>2, <3>3, MetKeeps
  <2>2. CASE ResetBy(f) /\ Expired(f)
    <3>1. /\ login' = login \/ login'.phase = "queued"
          /\ fetch'[f].met = fetch[f].met /\ fetch'[f].phase \in {"expired", "start", "relogin"}
          /\ \A g \in Fetchers : g # f => Same(g)
      BY <2>2, <1>1, ExpiredMet
    <3>2. Steady /\ client'.auth # "authenticated"
      BY <2>0, <2>2, <3>1, ResetSteady
    <3>3. Moves(f)
      BY <2>0, <3>1, <3>2 DEF Moves, Ended
    <3> QED BY <3>1, <3>2, <3>3, MetKeeps
  <2> QED BY <1>7, <2>1, <2>2 DEF Validated
<1>8. CASE Resend(f)
  <2>1. Steady
    BY <1>8, SteadyStill DEF Resend
  <2>2. fetch' = [fetch EXCEPT ![f].cookie = jar, ![f].resent = TRUE]
    BY <1>8 DEF Resend
  <2>3. \A g \in Fetchers : Same(g)
    BY <2>2, <1>1 DEF Same, Fetch
  <2> QED BY <2>1, <2>3, MetKeeps
<1>9. CASE Answer(f)
  <2>0. fetch[f].phase = "sent" /\ vtop' = vtop
    BY <1>9 DEF Answer
  <2>1. CASE \E phase \in {"page", "failed"} : To(f, phase) /\ UNCHANGED <<jar, client, dropped, login>>
    <3>1. Moves(f) /\ \A g \in Fetchers : g # f => Same(g)
      BY <2>0, <2>1, <1>1, ToMet DEF Moves, FetchPhase, Ended
    <3>2. Steady
      BY <2>0, <2>1, SteadyStill
    <3> QED BY <3>1, <3>2, MetKeeps
  <2>2. CASE ResetBy(f) /\ (Expired(f) \/ (To(f, "failed") /\ UNCHANGED login))
    <3>1. /\ login' = login \/ login'.phase = "queued"
          /\ fetch'[f].met = fetch[f].met
          /\ fetch'[f].phase \in {"expired", "start", "relogin", "failed"}
          /\ \A g \in Fetchers : g # f => Same(g)
      BY <2>2, <1>1, ExpiredMet, ToMet DEF FetchPhase, Ended
    <3>2. Steady /\ client'.auth # "authenticated"
      BY <2>0, <2>2, <3>1, ResetSteady
    <3>3. Moves(f)
      BY <2>0, <3>1, <3>2 DEF Moves, Ended
    <3> QED BY <3>1, <3>2, <3>3, MetKeeps
  <2> QED BY <1>9, <2>1, <2>2 DEF Answer
<1>10. ~AskedServer(f)
  BY DEF AskedServer, IInv, ServerOnly
<1> QED BY <1>2, <1>3, <1>4, <1>5, <1>6, <1>7, <1>8, <1>9, <1>10 DEF FetchStep
-----------------------------------------------------------------------------
(* The sign-in ends: whoever waited for a request meets the session that   *)
(* was made, and nobody expires.                                           *)
LEMMA EndsMet ==
  ASSUME TypeOK, NEW s \in Session, LoginEnds(s), s # None => Held(s)'
  PROVE  \A g \in Fetchers : Same(g) \/ Moves(g) \/ Renewed(g)
<1> SUFFICES ASSUME NEW g \in Fetchers PROVE Same(g) \/ Moves(g) \/ Renewed(g)
  OBVIOUS
<1> DEFINE p == After(s # None, g)
           meets == s # None /\ fetch[g].phase \notin Ended \cup {"idle"}
<1>1. fetch[g] \in Fetch
  BY DEF TypeOK
<1>2. /\ fetch'[g].phase = p
      /\ fetch'[g].met = IF meets THEN s ELSE fetch[g].met
  BY <1>1 DEF LoginEnds, Fetch
<1>3. p = fetch[g].phase \/ (fetch[g].phase \in Waiting /\ p \in {"ensure", "start", "failed"})
  BY DEF After, Waiting
<1> HIDE DEF p
<1>4. CASE meets
  <2>1. s \in Sessions /\ Held(s)'
    BY <1>4 DEF Session
  <2>2. p \notin {"idle", "expired"}
    BY <1>3, <1>4 DEF Ended
  <2> QED BY <1>2, <1>4, <2>1, <2>2 DEF Renewed
<1>5. CASE ~meets
  BY <1>2, <1>3, <1>5 DEF Same, Moves, Waiting, Ended
<1> QED BY <1>4, <1>5

(* A client that was given the fields of a session is signed in.           *)
LEMMA FieldsSignIn ==
  ASSUME NEW c \in Client, NEW s \in Sessions
  PROVE  /\ Finish(SetFields(c, s)).auth = "authenticated"
         /\ LeaveExternal(SetAuthenticated(SetFields(c, s))).auth = "authenticated"
         /\ Finish(SetAuthenticated(SetFields(c, s))).auth = "authenticated"
BY SessionsAssumption
   DEF Finish, LeaveExternal, SetAuthenticated, SetFields, Client, None

LEMMA StillMet ==
  ASSUME IInv, MetInv, ~onServer, UNCHANGED fetch, Steady
  PROVE  MetInv'
BY MetKeeps DEF Same

LEMMA LoginRunsMet ==
  ASSUME IInv, MetInv, ~onServer, LoginRuns
  PROVE  MetInv'
<1>1. UNCHANGED <<vtop, dropped, jar, client>>
  BY DEF LoginRuns
<1>2. CASE CanReuse /\ LoginEnds(jar)
  <2>1. login'.phase = "none" /\ jar \in Session
    BY <1>2 DEF LoginEnds, NoLogin, IInv, TypeOK, Session
  <2>2. Held(jar)'
    BY <1>1, <1>2, <2>1 DEF Held, CanReuse
  <2> QED BY <1>1, <1>2, <2>1, <2>2, SteadyStill, EndsMet, MetKeeps DEF IInv
<1>3. CASE /\ login' = [login EXCEPT !.phase = "lock"]
           /\ UNCHANGED <<fetch, relogin>>
  BY <1>1, <1>3, SteadyStill, StillMet DEF IInv, TypeOK, Login
<1> QED BY <1>2, <1>3 DEF LoginRuns

LEMMA LoginBeginsMet ==
  ASSUME IInv, MetInv, ~onServer, LoginBegins
  PROVE  MetInv'
<1>1. /\ UNCHANGED <<vtop, dropped, jar, fetch>>
      /\ login'.phase \in {"restore", "open"}
      /\ client'.auth = client.auth /\ client'.stage = "login"
  BY DEF LoginBegins, IInv, TypeOK, Login, Client
<1>2. Steady
  BY <1>1 DEF Steady, SignsIn, GivenUp, Held
<1> QED BY <1>1, <1>2, StillMet

LEMMA LoginRestoresMet ==
  ASSUME IInv, MetInv, ~onServer, LoginRestores
  PROVE  MetInv'
<1>0. /\ vtop' = vtop /\ dropped' = dropped /\ jar \in Session
      /\ client.auth = "restored" /\ client \in Client
  BY DEF LoginRestores, IInv, LoginHolds, TypeOK, Session
<1>1. \A s \in Sessions : (GivenUp(s) => GivenUp(s)') /\ ~Held(s)
  BY <1>0 DEF GivenUp, Held
<1>2. CASE /\ Live(client.ext)
           /\ client' = [LeaveExternal(SetAuthenticated(SetFields(client, client.ext)))
                           EXCEPT !.stage = "idle"]
           /\ jar' = jar
           /\ LoginEnds(jar)
  <2>1. client.ext \in Sessions
    BY <1>0, <1>2 DEF Live, Client
  <2>2. LeaveExternal(SetAuthenticated(SetFields(client, client.ext))) \in Client
    BY <1>0, <2>1, FieldsComplete DEF Session
  <2>3. client'.auth = "authenticated" /\ client'.stage = "idle" /\ login'.phase = "none"
    BY <1>0, <1>2, <2>1, <2>2, FieldsSignIn DEF Client, LoginEnds, NoLogin
  <2>4. Held(jar)' /\ SignsIn'
    BY <1>2, <2>3 DEF Held, SignsIn
  <2> QED BY <1>0, <1>1, <1>2, <2>4, EndsMet, MetKeeps DEF Steady, IInv
<1>3. CASE /\ Reset
           /\ login' = [login EXCEPT !.phase = "open"]
           /\ UNCHANGED <<fetch, relogin>>
  <2>1. SignsIn'
    BY <1>3 DEF SignsIn, IInv, TypeOK, Login
  <2> QED BY <1>1, <1>3, <2>1, StillMet DEF Steady
<1> QED BY <1>2, <1>3 DEF LoginRestores

LEMMA LoginOpensMet ==
  ASSUME IInv, MetInv, ~onServer, LoginOpens
  PROVE  MetInv'
<1>1. CASE /\ \E s \in Sessions : /\ vtop[s] = "none"
                                 /\ vtop' = [vtop EXCEPT ![s] = "open"]
                                 /\ jar' = s
           /\ GivesUp
           /\ login' = [login EXCEPT !.phase = "post"]
           /\ fetch' = fetch
  <2>1. PICK s \in Sessions : /\ vtop[s] = "none"
                              /\ vtop' = [vtop EXCEPT ![s] = "open"]
                              /\ jar' = s
    BY <1>1
  <2>2. login'.phase = "post" /\ vtop \in [Sessions -> {"none", "open", "otp", "live", "dead"}]
    BY <1>1 DEF IInv, TypeOK, Login
  <2>3. SignsIn'
    BY <2>1, <2>2 DEF SignsIn
  <2>4. ASSUME NEW t \in Sessions
        PROVE  /\ GivenUp(t) => GivenUp(t)'
               /\ Held(t) => GivenUp(t)'
    <3>1. t # None
      BY SessionsAssumption DEF None
    <3> QED BY <1>1, <2>1, <2>2, <3>1 DEF GivenUp, GivesUp, Held
  <2> QED BY <1>1, <2>3, <2>4, StillMet DEF Steady
<1>2. CASE jar' = jar /\ LoginEnds(None) /\ UNCHANGED <<vtop, client, dropped>>
  <2>1. login'.phase = "none"
    BY <1>2 DEF LoginEnds, NoLogin
  <2> QED BY <1>2, <2>1, SteadyStill, EndsMet, MetKeeps DEF IInv, Session
<1> QED BY <1>1, <1>2 DEF LoginOpens

(* VTOP takes the sign-in in the jar: its session was alive.               *)
LEMMA TakenMet ==
  ASSUME IInv, MetInv, ~onServer, NEW state \in {"live", "otp"},
         login.phase \in {"post", "otp"}, vtop[jar] \in {"open", "otp"},
         vtop' = [vtop EXCEPT ![jar] = state], dropped' = dropped
  PROVE  \A s \in Sessions : (GivenUp(s) => GivenUp(s)') /\ ~Held(s)
BY DEF GivenUp, Held, IInv, TypeOK

LEMMA LoginPostsMet ==
  ASSUME IInv, MetInv, ~onServer, LoginPosts
  PROVE  MetInv'
<1>0. /\ login.phase = "post" /\ jar' = jar /\ dropped' = dropped
      /\ jar \in Sessions /\ jar \in Session /\ vtop[jar] = "open" /\ client \in Client
      /\ vtop \in [Sessions -> {"none", "open", "otp", "live", "dead"}]
  BY DEF LoginPosts, IInv, LoginHolds, TypeOK, Session, MetInv, SignsIn
<1>1. CASE /\ vtop' = [vtop EXCEPT ![jar] = "live"]
           /\ client' = Finish(SetFields(client, jar))
           /\ LoginEnds(jar)
  <2>1. \A s \in Sessions : (GivenUp(s) => GivenUp(s)') /\ ~Held(s)
    BY <1>0, <1>1, TakenMet
  <2>2. login'.phase = "none" /\ client'.auth = "authenticated"
    BY <1>0, <1>1, FieldsSignIn DEF LoginEnds, NoLogin
  <2>3. Held(jar)' /\ SignsIn'
    BY <1>0, <2>2 DEF Held, SignsIn
  <2> QED BY <1>0, <1>1, <2>1, <2>3, EndsMet, MetKeeps DEF Steady, IInv
<1>2. CASE /\ vtop' = [vtop EXCEPT ![jar] = "otp"]
           /\ login' = [login EXCEPT !.phase = "otp"]
           /\ fetch' = fetch
  <2>1. \A s \in Sessions : (GivenUp(s) => GivenUp(s)') /\ ~Held(s)
    BY <1>0, <1>2, TakenMet
  <2>2. SignsIn'
    BY <1>0, <1>2 DEF SignsIn, IInv, TypeOK, Login
  <2> QED BY <1>2, <2>1, <2>2, StillMet DEF Steady
<1>3. CASE LoginEnds(None) /\ UNCHANGED <<vtop, client>>
  <2>1. login'.phase = "none"
    BY <1>3 DEF LoginEnds, NoLogin
  <2> QED BY <1>0, <1>3, <2>1, SteadyStill, EndsMet, MetKeeps DEF IInv, Session
<1> QED BY <1>1, <1>2, <1>3 DEF LoginPosts

LEMMA OtpMet ==
  ASSUME IInv, MetInv, ~onServer, OtpOnPhone
  PROVE  MetInv'
<1>0. /\ login.phase = "otp" /\ dropped' = dropped /\ client \in Client
      /\ vtop \in [Sessions -> {"none", "open", "otp", "live", "dead"}]
  BY DEF OtpOnPhone, IInv, TypeOK
<1>1. CASE OtpPending /\ OtpTaken
  <2> DEFINE opened == SetFields(client, jar)
             checked == IF client.ext # None THEN client.ext ELSE jar
  <2>1. /\ jar \in Sessions /\ jar \in Session /\ vtop[jar] = "otp"
        /\ checked \in Sessions
    BY <1>0, <1>1 DEF OtpPending, IInv, LoginHolds, TypeOK, Session, MetInv, SignsIn, Client
  <2>2. \A s \in Sessions : (GivenUp(s) => GivenUp(s)') /\ ~Held(s)
    BY <1>0, <1>1, <2>1, TakenMet DEF OtpTaken
  <2>3. opened \in Client
    BY <1>0, <2>1, SettersKeepClient
  <2> HIDE DEF checked
  <2>4. ASSUME client'.auth = "authenticated", jar' = jar, LoginEnds(jar) PROVE MetInv'
    <3>1. login'.phase = "none"
      BY <2>4 DEF LoginEnds, NoLogin
    <3>2. Held(jar)' /\ SignsIn'
      BY <2>4, <3>1 DEF Held, SignsIn
    <3> QED BY <2>1, <2>2, <2>4, <3>2, EndsMet, MetKeeps DEF Steady, IInv
  <2>5. ASSUME LoginEnds(None) PROVE MetInv'
    <3>1. login'.phase = "none"
      BY <2>5 DEF LoginEnds, NoLogin
    <3>2. SignsIn'
      BY <3>1 DEF SignsIn
    <3> QED BY <2>2, <2>5, <3>2, EndsMet, MetKeeps DEF Steady, IInv, Session
  <2>6. CASE client' = Finish(opened) /\ jar' = jar /\ LoginEnds(jar)
    BY <1>0, <2>1, <2>4, <2>6, FieldsSignIn
  <2> HIDE DEF opened
  <2>7. CASE /\ client' = Finish(SetAuthenticated(SetFields(opened, checked)))
             /\ jar' = jar /\ LoginEnds(jar)
    BY <2>1, <2>3, <2>4, <2>7, FieldsSignIn
  <2> QED BY <1>1, <2>5, <2>6, <2>7 DEF OtpTaken, opened, checked
<1>2. CASE jar' = jar /\ LoginEnds(None) /\ UNCHANGED <<vtop, client>>
  <2>1. login'.phase = "none"
    BY <1>2 DEF LoginEnds, NoLogin
  <2> QED BY <1>0, <1>2, <2>1, SteadyStill, EndsMet, MetKeeps DEF IInv, Session
<1> QED BY <1>1, <1>2 DEF OtpOnPhone

LEMMA ReloginDoneMet ==
  ASSUME IInv, MetInv, ~onServer, ReloginDone
  PROVE  MetInv'
<1>1. UNCHANGED <<vtop, dropped, jar, client, login>>
  BY DEF ReloginDone
<1>2. ASSUME NEW g \in Fetchers PROVE Same(g) \/ Moves(g)
  <2>1. fetch[g] \in Fetch
    BY DEF IInv, TypeOK
  <2>2. fetch'[g] = IF fetch[g].phase = "relogin"
                    THEN [fetch[g] EXCEPT !.phase = "start", !.retried = TRUE]
                    ELSE fetch[g]
    BY DEF ReloginDone
  <2> QED BY <2>1, <2>2 DEF Same, Moves, Fetch, Ended
<1> QED BY <1>1, <1>2, SteadyStill, MetKeeps

LEMMA WorldMet ==
  ASSUME IInv, MetInv, ~onServer, (\E s \in Sessions : Drop(s)) \/ Age
  PROVE  MetInv'
<1>1. CASE \E s \in Sessions : Drop(s)
  <2>1. PICK s \in Sessions : vtop[s] = "live" /\ vtop' = [vtop EXCEPT ![s] = "dead"]
    BY <1>1 DEF Drop
  <2>2. /\ UNCHANGED <<dropped, jar, client, login, fetch>>
        /\ vtop \in [Sessions -> {"none", "open", "otp", "live", "dead"}]
        /\ jar \in Sessions \cup {None}
    BY <1>1 DEF Drop, IInv, TypeOK
  <2>3. login.phase = "post" \/ client.stage = "otp" => jar \in Sessions
    BY <2>2 DEF IInv, LoginHolds
  <2>4. SignsIn'
    BY <2>1, <2>2, <2>3 DEF MetInv, SignsIn
  <2>5. Steady
    BY <2>1, <2>2, <2>4 DEF Steady, GivenUp, Held
  <2> QED BY <2>2, <2>5, StillMet
<1>2. CASE Age
  <2>1. /\ UNCHANGED <<vtop, dropped, jar, login, fetch>>
        /\ client'.auth = client.auth /\ client'.stage = client.stage
    BY <1>2 DEF Age, IInv, TypeOK, Client
  <2>2. Steady
    BY <2>1 DEF Steady, MetInv, SignsIn, GivenUp, Held
  <2> QED BY <2>1, <2>2, StillMet
<1> QED BY <1>1, <1>2

LEMMA StepMet == IInv /\ MetInv /\ [Next]_vars => MetInv'
<1> SUFFICES ASSUME IInv, MetInv, [Next]_vars PROVE MetInv'
  OBVIOUS
<1>1. CASE UNCHANGED vars
  BY <1>1 DEF vars, MetInv, SignsIn, Meets, GivenUp, Held, onServer
<1>2. CASE Next
  <2>1. setup' = setup
    BY <1>2 DEF Next, FetchStep, LoginStep, Queue, Ensure, Start, Enter, Recheck, Validated,
       Resend, Answer, AskedServer, LoginRuns, LoginBegins, LoginRestores, LoginOpens,
       LoginPosts, LoginOnServer, OtpOnPhone, OtpOnServer, ReloginDone, Drop, Age
  <2>2. CASE onServer
    BY <2>1, <2>2 DEF MetInv, onServer
  <2>3. CASE ~onServer
    <3>1. ASSUME NEW f \in Fetchers, FetchStep(f) PROVE MetInv'
      BY <2>3, <3>1, FetchMet
    <3>2. ~LoginOnServer /\ ~OtpOnServer
      BY <2>3 DEF LoginOnServer, OtpOnServer, IInv, ServerOnly
    <3>3. CASE LoginStep
      BY <2>3, <3>2, <3>3, LoginRunsMet, LoginBeginsMet, LoginRestoresMet, LoginOpensMet,
         LoginPostsMet, OtpMet, ReloginDoneMet DEF LoginStep
    <3>4. CASE (\E s \in Sessions : Drop(s)) \/ Age
      BY <2>3, <3>4, WorldMet
    <3> QED BY <1>2, <3>1, <3>3, <3>4 DEF Next
  <2> QED BY <2>2, <2>3
<1> QED BY <1>1, <1>2

(* relogin_vtop_backend.dart: a fetch that started before a re-login       *)
(* finished retries on the new session.  On the phone, a fetch that ends   *)
(* as expired although a sign-in ended while it waited finds the session   *)
(* made there dead on VTOP's side, or given up by the client on the answer *)
(* to a request that carried it or for a newer sign-in: the late answer to *)
(* a request sent before never takes the new session from it.              *)
THEOREM RetriesOnNewSession == Spec => []RetriesOnNew
<1>1. Init => MetInv
  BY InitMet
<1>2. IInv /\ MetInv /\ [Next]_vars => MetInv'
  BY StepMet
<1> QED BY <1>1, <1>2, MetRetries, Invariant, PTL DEF Spec
=============================================================================

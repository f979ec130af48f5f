---------------------------- MODULE PhoneSession ----------------------------
(***************************************************************************)
(* One phone's VTOP client, shared by every fetch, sign-in and OTP prompt  *)
(* of the app: the client of vtop-core with its validation mutex, the      *)
(* read/write lock the bridge to Dart takes on it, the app's queue, its    *)
(* re-login (ReloginVtopBackend) and the sign-in on the server.            *)
(*                                                                         *)
(* An answer of VTOP is one step: VTOP's decision and what the client does *)
(* with it.  A signed-in session may die at any moment, so a request may   *)
(* meet the death of the session it carries at any time after it was sent. *)
(***************************************************************************)
EXTENDS SessionManager

CONSTANTS Fetchers,    \* the fetches, each made once
          Setups,      \* the setups to start from: whether "Fetch on the
                       \* server" is on, and which fetches are pages of
                       \* fetchPage, which signs in first when it has to
          MaxDeaths    \* how many sessions VTOP drops

ASSUME SetupsAssumption ==
  Setups \subseteq [onServer: BOOLEAN, pages: SUBSET Fetchers]
ASSUME MaxDeathsAssumption == MaxDeaths \in Nat

NoOne == "no one"
ASSUME NoOneAssumption == NoOne \notin Fetchers

\* The session saved by the app's last run, if any.
ASSUME SavedAssumption == 1 \in Sessions

VARIABLES
  setup,       \* one of Setups
  vtop,        \* what VTOP knows of each session
  deaths,      \* sessions VTOP dropped so far
  jar,         \* the session of the cookies in the jar
  client,      \* the ClientState
  mutex,       \* who holds the validation mutex
  validations, \* validations by fetches since a session was resumed
  dropped,     \* sessions the client gave up: on the answer to a request
               \* that carried them, or for a new sign-in
  fetch,       \* each fetch: its phase and what it carries
  login,       \* the sign-in task of the queue
  relogin,     \* ReloginVtopBackend._inFlight
  generation   \* ReloginVtopBackend._generation

vars == <<setup, vtop, deaths, jar, client, mutex, validations, dropped, fetch, login,
          relogin, generation>>

onServer == setup.onServer
Pages == setup.pages

Ended == {"page", "failed", "expired"}
InRust == {"mutex", "content", "sent"}
Waiting == {"behind", "signing", "relogin"}
FetchPhase == {"idle", "start", "ensure", "enter", "asking"}
              \cup InRust \cup Waiting \cup Ended
Writing == {"restore", "open", "post"}
LoginPhase == {"none", "queued", "server", "lock", "otp"} \cup Writing

\* What a fetch carries: the session of its cookies, the one of its CSRF token,
\* whether it was sent twice, _generation when it began, whether it is its
\* second try; and the latest session a sign-in made meanwhile.
Fetch == [phase: FetchPhase,
          cookie: Sessions \cup {None}, csrf: Sessions \cup {None}, resent: BOOLEAN,
          generation: Nat, retried: BOOLEAN,
          met: Sessions \cup {None}]

\* The sign-in, whether it was forced, and whether the server does it.
Login == [phase: LoginPhase, forced: BOOLEAN, asked: BOOLEAN]

TypeOK ==
  /\ setup \in Setups
  /\ vtop \in [Sessions -> {"none", "open", "otp", "live", "dead"}]
  /\ deaths \in 0..MaxDeaths
  /\ jar \in Sessions \cup {None}
  /\ client \in Client
  /\ mutex \in Fetchers \cup {NoOne}
  /\ validations \in Nat
  /\ dropped \subseteq Sessions
  /\ fetch \in [Fetchers -> Fetch]
  /\ login \in Login
  /\ relogin \in {"none", "asked", "signed in"}
  /\ generation \in Nat
  /\ \A f \in Fetchers : fetch[f].phase = "content" <=> mutex = f

NoLogin == [phase |-> "none", forced |-> FALSE, asked |-> FALSE]

(***************************************************************************)
(* The app starts on the session it saved: none, one it trusts (with the   *)
(* CSRF token and registration number) or bare cookies; VTOP may have      *)
(* dropped it since.  1 is that session.                                   *)
(***************************************************************************)
Init ==
  /\ setup \in Setups
  /\ \E known \in {"none", "live", "dead"} :
       /\ vtop = [s \in Sessions |-> IF s = 1 THEN known ELSE "none"]
       /\ jar = IF known = "none" THEN None ELSE 1
       /\ client \in IF known = "none" THEN {Cleared}
                     ELSE {Resumed(1, kind, "unknown") : kind \in {"signed", "cookies"}}
                          \cup {Resumed(1, "signed", "young")}
  /\ deaths = 0
  /\ mutex = NoOne
  /\ validations = 0
  /\ dropped = {}
  /\ fetch = [f \in Fetchers |->
               [phase |-> "idle", cookie |-> None, csrf |-> None, resent |-> FALSE,
                generation |-> 0, retried |-> FALSE, met |-> None]]
  /\ login = NoLogin
  /\ relogin = "none"
  /\ generation = 0

(***************************************************************************)
(* Helpers.                                                                *)
(***************************************************************************)
\* Fetch f goes on without the request it had under way, if any.
Without(r, phase) ==
  [r EXCEPT !.phase = phase, !.cookie = None, !.csrf = None, !.resent = FALSE]

To(f, phase) == fetch' = [fetch EXCEPT ![f] = Without(@, phase)]

Live(s) == s # None /\ vtop[s] = "live"

\* A call that reads the client waits while one that changes it runs.
MayRead == login.phase \notin Writing

Readers == {f \in Fetchers : fetch[f].phase \in InRust}

\* reset_session_state: the session data and the cookie jar.
Reset == client' = Cleared /\ jar' = None

GivesUp == dropped' = dropped \cup ({jar} \ {None})

\* mark_session_expired on the answer to fetch f.
ResetBy(f) ==
  /\ Reset
  /\ IF fetch[f].cookie = jar THEN GivesUp ELSE UNCHANGED dropped

CanReuse == client.auth = "authenticated" /\ client.age # "old"

\* What the queue's sign-in task is asked for; a second request joins it.
JoinLogin(force) ==
  login' = IF login.phase = "none"
           THEN [phase |-> "queued", forced |-> force, asked |-> FALSE]
           ELSE login

(***************************************************************************)
(* send_authenticated and authorize: the request carries the cookies of    *)
(* the jar and the CSRF token of the state, read at this moment.           *)
(***************************************************************************)
Carrying(r, cookie, csrf) ==
  [r EXCEPT !.phase = "sent", !.cookie = cookie, !.csrf = csrf, !.resent = FALSE]

Sent(f) == fetch' = [fetch EXCEPT ![f] = Carrying(@, jar, client.csrf)]

(***************************************************************************)
(* ReloginVtopBackend._retrying: the first SessionExpired of a fetch asks  *)
(* for a sign-in, shared with the others', unless one ended since the      *)
(* fetch began; then the fetch is made once more, and a second             *)
(* SessionExpired is its result.                                           *)
(***************************************************************************)
Expired(f) ==
  \/ /\ fetch[f].retried
     /\ To(f, "expired")
     /\ UNCHANGED <<login, relogin>>
  \/ /\ ~fetch[f].retried
     /\ fetch[f].generation # generation
     /\ fetch' = [fetch EXCEPT ![f] = [Without(@, "start") EXCEPT !.retried = TRUE]]
     /\ UNCHANGED <<login, relogin>>
  \/ /\ ~fetch[f].retried
     /\ fetch[f].generation = generation
     /\ To(f, "relogin")
     /\ IF relogin = "none"
        THEN relogin' = "asked" /\ JoinLogin(TRUE)
        ELSE UNCHANGED <<login, relogin>>

(***************************************************************************)
(* The queue's sign-in task ends with session s, or None when it failed.   *)
(* Whoever waited for it goes on or fails; a re-login that asked for it    *)
(* bumps the generation in a later step.                                   *)
(***************************************************************************)
After(ok, f) ==
  CASE fetch[f].phase = "behind"  -> IF ok THEN "ensure" ELSE "failed"
    [] fetch[f].phase = "signing" -> IF ok THEN "start" ELSE "failed"
    [] fetch[f].phase = "relogin" /\ relogin = "asked" /\ ~ok -> "failed"
    [] OTHER -> fetch[f].phase

\* _signInAgain's finally.  Mutant: a re-login that failed stays in flight.
StaysInFlight(ok) == IF relogin = "asked" /\ ok THEN "signed in" ELSE relogin

ReloginAfter(ok) ==
  IF relogin # "asked" THEN relogin ELSE IF ok THEN "signed in" ELSE "none"

LoginEnds(s) ==
  /\ login' = NoLogin
  /\ relogin' = ReloginAfter(s # None)
  /\ fetch' = [f \in Fetchers |->
                [fetch[f] EXCEPT
                   !.phase = After(s # None, f),
                   !.met = IF s # None /\ fetch[f].phase \notin Ended \cup {"idle"}
                           THEN s ELSE @]]

(***************************************************************************)
(* A fetch.                                                                *)
(***************************************************************************)
\* GlobalAsyncQueue.run: a VTOP task waits for a sign-in already under way.
Queue(f) ==
  /\ fetch[f].phase = "idle"
  /\ To(f, IF login.phase = "none" THEN "ensure" ELSE "behind")
  /\ UNCHANGED <<setup, vtop, deaths, dropped, jar, client, mutex, validations, login, relogin, generation>>

\* fetchPage calls ensureLogin; an action or an unsaved page does not.
Ensure(f) ==
  /\ fetch[f].phase = "ensure"
  /\ f \in Pages => MayRead
  /\ IF f \in Pages /\ ~CanReuse
     THEN To(f, "signing") /\ JoinLogin(FALSE)
     ELSE To(f, "start") /\ UNCHANGED login
  /\ UNCHANGED <<setup, vtop, deaths, dropped, jar, client, mutex, validations, relogin, generation>>

\* _retrying notes the generation when the fetch is first made.
Begun(r) == [r EXCEPT !.generation = IF r.retried THEN @ ELSE generation]

\* ServerVtopBackend reads pages through the server, which needs a signed-in
\* session to send.
Start(f) ==
  /\ fetch[f].phase = "start"
  /\ \/ /\ ~(onServer /\ f \in Pages)
        /\ fetch' = [fetch EXCEPT ![f] = [Begun(@) EXCEPT !.phase = "enter"]]
     \/ /\ onServer /\ f \in Pages
        /\ MayRead
        /\ fetch' = [fetch EXCEPT ![f] =
                      [Begun(@) EXCEPT !.phase = "asking",
                         !.cookie = IF client.auth = "authenticated" THEN jar ELSE None]]
  /\ UNCHANGED <<setup, vtop, deaths, dropped, jar, client, mutex, validations, login, relogin, generation>>

\* The call into Rust takes the read lock; a signed-in session is used as it
\* is, otherwise the fetch queues for the validation mutex.
Enter(f) ==
  /\ fetch[f].phase = "enter"
  /\ MayRead
  /\ IF HasUsable(client) THEN Sent(f) ELSE To(f, "mutex")
  /\ UNCHANGED <<setup, vtop, deaths, dropped, jar, client, mutex, validations, login, relogin, generation>>

\* The second look, with the mutex in hand.  Mutant: there is none.
NoSecondLook == FALSE

UsableByNow == HasUsable(client)

\* ensure_authenticated_session with the mutex in hand: another fetch may have
\* validated; a session signed in or from outside is checked with VTOP.
Recheck(f) ==
  /\ fetch[f].phase = "mutex"
  /\ mutex = NoOne
  /\ \/ /\ UsableByNow
        /\ Sent(f)
        /\ UNCHANGED <<mutex, validations, login, relogin>>
     \/ /\ ~UsableByNow
        /\ client.auth # "anonymous"
        /\ mutex' = f
        /\ validations' = validations + 1
        /\ fetch' = [fetch EXCEPT ![f].phase = "content", ![f].cookie = client.ext]
        /\ UNCHANGED <<login, relogin>>
     \/ /\ client.auth = "anonymous"
        /\ Expired(f)
        /\ UNCHANGED <<mutex, validations>>
  /\ UNCHANGED <<setup, vtop, deaths, dropped, jar, client, generation>>

\* Mutant of Validated: a check that fails keeps the mutex.
ValidatedHolds(f) ==
  /\ fetch[f].phase = "content"
  /\ ResetBy(f) /\ Expired(f)
  /\ UNCHANGED <<setup, vtop, deaths, mutex, validations, generation>>

\* try_restore_existing_session: anything but VTOP's page drops the session.
Validated(f) ==
  /\ fetch[f].phase = "content"
  /\ mutex' = NoOne
  /\ \/ /\ Live(fetch[f].cookie)
        /\ client' = LeaveExternal(SetAuthenticated(SetFields(client, fetch[f].cookie)))
        /\ fetch' = [fetch EXCEPT ![f] = Carrying(@, jar, @.cookie)]
        /\ UNCHANGED <<jar, dropped, login, relogin>>
     \/ ResetBy(f) /\ Expired(f)
  /\ UNCHANGED <<setup, vtop, deaths, validations, generation>>

\* send_authenticated after a failed connection or a 5xx: once more with the
\* same form, but the cookies of the jar as it is now.
Resend(f) ==
  /\ fetch[f].phase = "sent" /\ ~fetch[f].resent
  /\ fetch' = [fetch EXCEPT ![f].cookie = jar, ![f].resent = TRUE]
  /\ UNCHANGED <<setup, vtop, deaths, dropped, jar, client, mutex, validations, login, relogin, generation>>

\* read_authenticated_response_text: a page; a bounce to the sign-in page or
\* a 4xx (dead session, or a token of another one), which drops the session
\* the client holds now; a 5xx, which drops it too; no answer, or VTOP down.
Answer(f) ==
  /\ fetch[f].phase = "sent"
  /\ LET good == Live(fetch[f].cookie) /\ fetch[f].csrf = fetch[f].cookie
     IN \/ /\ good
           /\ To(f, "page")
           /\ UNCHANGED <<jar, client, dropped, login, relogin>>
        \/ /\ ~good
           /\ ResetBy(f) /\ Expired(f)
        \/ ResetBy(f) /\ To(f, "failed") /\ UNCHANGED <<login, relogin>>
        \/ To(f, "failed") /\ UNCHANGED <<jar, client, dropped, login, relogin>>
  /\ UNCHANGED <<setup, vtop, deaths, mutex, validations, generation>>

(***************************************************************************)
(* The server's answer to a page: the page, an expired session, a session  *)
(* it renewed (adoptSession puts it in the client), or no answer, after    *)
(* which the phone fetches the page itself.                                *)
(***************************************************************************)
AskedServer(f) ==
  /\ fetch[f].phase = "asking"
  /\ \/ /\ Live(fetch[f].cookie)
        /\ To(f, "page")
        /\ UNCHANGED <<vtop, jar, client, validations, dropped, login, relogin>>
     \/ /\ ~Live(fetch[f].cookie)
        /\ Expired(f)
        /\ UNCHANGED <<vtop, jar, client, validations, dropped>>
     \/ /\ fetch[f].cookie # None /\ ~Live(fetch[f].cookie)
        /\ MayRead
        /\ \E s \in Sessions :
             /\ vtop[s] = "none"
             /\ vtop' = [vtop EXCEPT ![s] = "live"]
             /\ jar' = s
             /\ client' = Resumed(s, "signed", "young")
        /\ validations' = 0
        /\ GivesUp
        /\ To(f, "page")
        /\ UNCHANGED <<login, relogin>>
     \/ /\ fetch[f].cookie # None
        /\ To(f, "enter")
        /\ UNCHANGED <<vtop, jar, client, validations, dropped, login, relogin>>
  /\ UNCHANGED <<setup, deaths, mutex, generation>>

\* _signInAgain goes on once the session is saved: the fetches that waited
\* are made again.
ReloginDone ==
  /\ relogin = "signed in"
  /\ relogin' = "none"
  /\ generation' = generation + 1
  /\ fetch' = [f \in Fetchers |->
                IF fetch[f].phase = "relogin"
                THEN [fetch[f] EXCEPT !.phase = "start", !.retried = TRUE]
                ELSE fetch[f]]
  /\ UNCHANGED <<setup, vtop, deaths, dropped, jar, client, mutex, validations, login>>

(***************************************************************************)
(* The sign-in.  On the phone, login and submit_security_otp take the      *)
(* client's write lock: no fetch is inside.                                *)
(***************************************************************************)
LoginRuns ==
  /\ login.phase = "queued"
  /\ IF ~login.forced /\ CanReuse
     THEN LoginEnds(jar)
     ELSE /\ login' = [login EXCEPT !.phase = IF onServer THEN "server" ELSE "lock"]
          /\ UNCHANGED <<fetch, relogin>>
  /\ UNCHANGED <<setup, vtop, deaths, dropped, jar, client, mutex, validations, generation>>

\* &mut self through the bridge: the write lock.  Mutant: a read lock.
SharedLock == TRUE

NoFetchInside == Readers = {}

\* login(): a session from outside is tried before the CAPTCHA sign-in.
LoginBegins ==
  /\ login.phase = "lock"
  /\ NoFetchInside
  /\ client' = [client EXCEPT !.stage = "login"]
  /\ login' = [login EXCEPT !.phase = IF client.auth = "restored" THEN "restore" ELSE "open"]
  /\ UNCHANGED <<setup, vtop, deaths, dropped, jar, mutex, validations, fetch, relogin, generation>>

LoginRestores ==
  /\ login.phase = "restore"
  /\ \/ /\ Live(client.ext)
        /\ client' = [LeaveExternal(SetAuthenticated(SetFields(client, client.ext)))
                        EXCEPT !.stage = "idle"]
        /\ jar' = jar
        /\ LoginEnds(jar)
     \/ /\ Reset
        /\ login' = [login EXCEPT !.phase = "open"]
        /\ UNCHANGED <<fetch, relogin>>
  /\ UNCHANGED <<setup, vtop, deaths, dropped, mutex, validations, generation>>

\* load_login_page: /vtop/open/page opens a fresh VTOP session.
LoginOpens ==
  /\ login.phase = "open"
  /\ \/ \E s \in Sessions :
          /\ vtop[s] = "none"
          /\ vtop' = [vtop EXCEPT ![s] = "open"]
          /\ jar' = s
          /\ client' = SetCsrf(client, s)
          /\ GivesUp
          /\ login' = [login EXCEPT !.phase = "post"]
          /\ UNCHANGED <<fetch, relogin>>
     \/ jar' = jar /\ LoginEnds(None) /\ UNCHANGED <<vtop, client, dropped>>
  /\ UNCHANGED <<setup, deaths, mutex, validations, generation>>

\* perform_login, the rejected CAPTCHAs before it included: signed in, the
\* emailed OTP asked for, or refused.
LoginPosts ==
  /\ login.phase = "post"
  /\ jar' = jar
  /\ \/ /\ vtop' = [vtop EXCEPT ![jar] = "live"]
        /\ client' = Finish(SetFields(client, jar))
        /\ LoginEnds(jar)
     \/ /\ vtop' = [vtop EXCEPT ![jar] = "otp"]
        /\ client' = [SetCsrf(client, jar) EXCEPT !.stage = "otp"]
        /\ login' = [login EXCEPT !.phase = "otp"]
        /\ UNCHANGED <<fetch, relogin>>
     \/ LoginEnds(None) /\ UNCHANGED <<vtop, client>>
  /\ UNCHANGED <<setup, dropped, deaths, mutex, validations, generation>>

\* ServerVtopAuthenticator.login: the session the server signed in, one that
\* waits for the OTP, a refusal, or no answer (then the phone signs in).
LoginOnServer ==
  /\ login.phase = "server"
  /\ \/ \E s \in Sessions, kind \in {"signed", "otp"} :
          /\ vtop[s] = "none"
          /\ vtop' = [vtop EXCEPT ![s] = IF kind = "signed" THEN "live" ELSE "otp"]
          /\ jar' = s
          /\ client' = Resumed(s, kind, IF kind = "signed" THEN "young" ELSE "unknown")
          /\ validations' = 0
          /\ GivesUp
          /\ IF kind = "signed"
             THEN LoginEnds(s)
             ELSE /\ login' = [login EXCEPT !.phase = "otp", !.asked = TRUE]
                  /\ UNCHANGED <<fetch, relogin>>
     \/ /\ jar' = jar
        /\ \/ LoginEnds(None)
           \/ login' = [login EXCEPT !.phase = "lock"] /\ UNCHANGED <<fetch, relogin>>
        /\ UNCHANGED <<vtop, client, validations, dropped>>
  /\ UNCHANGED <<setup, deaths, mutex, generation>>
(***************************************************************************)
(* submit_security_otp with a code VTOP takes.  Either VTOP leads to the   *)
(* content page by itself (landed), or it names the page to open, and      *)
(* after opening it the session is checked once more, with the header of a *)
(* session from outside when the client still has one.  A check with no    *)
(* answer leaves the OTP pending.                                          *)
(***************************************************************************)
OtpTaken ==
  LET opened  == SetFields(client, jar)
      checked == IF client.ext # None THEN client.ext ELSE jar
      good    == checked = jar \/ Live(checked)
  IN /\ vtop' = [vtop EXCEPT ![jar] = "live"]
     /\ \/ /\ client' = Finish(opened)
           /\ jar' = jar
           /\ LoginEnds(jar)
        \/ /\ good
           /\ client' = Finish(SetAuthenticated(SetFields(opened, checked)))
           /\ jar' = jar
           /\ LoginEnds(jar)
        \/ ~good /\ Reset /\ LoginEnds(None)
        \/ client' = opened /\ jar' = jar /\ LoginEnds(None)

\* otp_pending
OtpPending == client.stage = "otp" /\ client.csrf # None

\* The OTP prompt's answer: a code for VTOP when the client still waits for
\* one, or the student gives up (a refused code before that included).
OtpOnPhone ==
  /\ login.phase = "otp" /\ ~login.asked
  /\ NoFetchInside
  /\ \/ OtpPending /\ OtpTaken
     \/ jar' = jar /\ LoginEnds(None) /\ UNCHANGED <<vtop, client>>
  /\ UNCHANGED <<setup, dropped, deaths, mutex, validations, generation>>

\* The server finishes the sign-in it began, from the session the phone
\* exports at this moment.
OtpOnServer ==
  /\ login.phase = "otp" /\ login.asked
  /\ \/ /\ client.stage = "otp" /\ jar # None
        /\ vtop' = [vtop EXCEPT ![jar] = "live"]
        /\ client' = Resumed(jar, "signed", "young")
        /\ validations' = 0
        /\ jar' = jar
        /\ LoginEnds(jar)
     \/ jar' = jar /\ LoginEnds(None) /\ UNCHANGED <<vtop, client, validations>>
  /\ UNCHANGED <<setup, dropped, deaths, mutex, generation>>

(***************************************************************************)
(* The world: VTOP drops a session; the session grows older than the       *)
(* Session Reuse setting.                                                  *)
(***************************************************************************)
Drop(s) ==
  /\ vtop[s] = "live"
  /\ deaths < MaxDeaths
  /\ vtop' = [vtop EXCEPT ![s] = "dead"]
  /\ deaths' = deaths + 1
  /\ UNCHANGED <<setup, dropped, jar, client, mutex, validations, fetch, login, relogin, generation>>

Age ==
  /\ client.age = "young"
  /\ client' = [client EXCEPT !.age = "old"]
  /\ UNCHANGED <<setup, vtop, deaths, dropped, jar, mutex, validations, fetch, login, relogin, generation>>

FetchStep(f) ==
  \/ Queue(f) \/ Ensure(f) \/ Start(f) \/ Enter(f) \/ Recheck(f)
  \/ Validated(f) \/ Resend(f) \/ Answer(f) \/ AskedServer(f)

LoginStep ==
  \/ LoginRuns \/ LoginBegins \/ LoginRestores \/ LoginOpens \/ LoginPosts
  \/ LoginOnServer \/ OtpOnPhone \/ OtpOnServer \/ ReloginDone

Next ==
  \/ \E f \in Fetchers : FetchStep(f)
  \/ LoginStep
  \/ \E s \in Sessions : Drop(s)
  \/ Age

Spec == Init /\ [][Next]_vars

(***************************************************************************)
(* Requests are answered or fail, a task of the queue runs on, and the     *)
(* student answers or dismisses the OTP prompt.                            *)
(***************************************************************************)
FairSpec ==
  /\ Spec
  /\ \A f \in Fetchers : WF_vars(FetchStep(f))
  /\ WF_vars(LoginStep)

(***************************************************************************)
(* Properties.                                                             *)
(***************************************************************************)
\* client/mod.rs, VtopClient.validation: however many fetches meet a restored
\* session at once, /vtop/content is asked for at most once for it.
OneValidation == validations <= 1

\* The session of a signed-in client is dropped by the answer to a request that
\* carried it, by the check after an OTP, or in server mode.
OwnDrop ==
  client.auth = "authenticated" /\ jar # None /\ jar' = None
    => \/ onServer
       \/ \E f \in Fetchers : /\ fetch[f].phase \in InRust
                              /\ fetch[f].cookie = jar
                              /\ fetch'[f].phase \notin InRust
       \/ login.phase = "otp"

\* mark_session_expired drops whatever session the client holds. A signed-in
\* session is dropped only by the answer to a request that carried it, or by
\* the check after an OTP: never by the late answer to a request sent on an
\* earlier one, because signing in waits for such answers; a session the
\* server made does not.
OnlyOwnDropped == [][OwnDrop]_vars

\* relogin_vtop_backend.dart: "a fetch that started before a re-login finished
\* just retries on the new session". On the phone it ends as expired only if
\* that session is dead too. (A session the server made does not wait for late
\* answers, and one of them may drop it.)
RetriesOnNew ==
  \A f \in Fetchers :
    ~onServer /\ fetch[f].phase = "expired" /\ fetch[f].met # None
      => vtop[fetch[f].met] = "dead" \/ fetch[f].met \in dropped

\* Every fetch ends, whatever waits for the queue, the lock, the mutex, the
\* shared re-login and the prompt.
EveryFetchEnds ==
  \A f \in Fetchers : fetch[f].phase # "idle" ~> fetch[f].phase \in Ended
-----------------------------------------------------------------------------
(***************************************************************************)
(* Why the phone's fetches neither validate twice nor drop a newer session *)
(* (PhoneSessionProof).                                                    *)
(***************************************************************************)
\* No call that reads the client is inside while one that changes it runs.
LockExcludes == login.phase \in Writing => Readers = {}

\* On the phone a request under way carries the session the client holds, if
\* it still holds one.
CarriesJar ==
  \A f \in Fetchers :
    ~onServer /\ fetch[f].phase = "sent" => jar \in {fetch[f].cookie, None}

\* Nobody signs the client in while a fetch validates its session.
ChecksRestored ==
  \A f \in Fetchers :
    ~onServer /\ fetch[f].phase = "content" => client.auth # "authenticated"

\* A signed-in client never lacks what a request needs.
TrustsComplete == client.auth = "authenticated" => client.csrf # None /\ client.regno

\* A sign-in has the session it is about.
LoginHolds ==
  /\ login.phase = "restore" => client.auth = "restored"
  /\ login.phase = "post" \/ client.stage = "otp" => jar # None

ServerOnly ==
  /\ login.phase = "server" \/ login.asked => onServer
  /\ \A f \in Fetchers : fetch[f].phase = "asking" => onServer

\* Once a restored session was validated it is no longer a restored one.
ValidatesOnce ==
  /\ OneValidation
  /\ client.auth = "restored" /\ mutex = NoOne => validations = 0

IInv ==
  /\ TypeOK
  /\ LockExcludes
  /\ CarriesJar
  /\ ChecksRestored
  /\ TrustsComplete
  /\ LoginHolds
  /\ ServerOnly
  /\ ValidatesOnce
=============================================================================

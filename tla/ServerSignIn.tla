---------------------------- MODULE ServerSignIn ----------------------------
(***************************************************************************)
(* The engine signs a student in with saved credentials (vtop-bridge,      *)
(* engine.rs, login.rs, gmail.rs) and gets the OTP VTOP mails: from the    *)
(* student's forwarding address, where a Mailbox object (vtop-edge,        *)
(* store.ts) keeps codes for sign-ins that wait, or, without one, from     *)
(* the student's Gmail.                                                    *)
(*                                                                         *)
(* Several sign-ins of the student may be under way, and VTOP mails codes  *)
(* for others, of the phone say; every waiting sign-in gets all of them.   *)
(* A wait at the edge is a call of its own, which goes on when the         *)
(* connection to the engine breaks.                                        *)
(***************************************************************************)
EXTENDS Naturals, FiniteSets, SequencesExt

CONSTANTS SignIns,    \* the engine's sign-ins
          Foreign,    \* VTOP's challenges to other sign-ins of the student
          Wait,       \* otp_wait
          Step,       \* AWAIT_STEP_SECS, and POLL_EVERY
          Hang,       \* the timeout of the engine's calls to the edge
          Reading,    \* how long a poll's requests to Gmail may take together
          Ttl,        \* WAITER_TTL_SECS
          Slack,      \* CLOCK_SLACK_SECS
          MaxResults, \* the mails newest_otp lists
          Drift,      \* how far VTOP's clock may be behind
          MaxTime,    \* when the last sign-in begins or is asked for a code
          MaxFaults   \* broken connections, mails sent twice, and the like

ASSUME ChallengesAssumption ==
  /\ SignIns \cap Foreign = {}
  /\ {"none", "no address", "sent"} \cap (SignIns \cup Foreign) = {}
ASSUME ClocksAssumption ==
  /\ {Wait, Step, Hang, Reading, Ttl, Slack, MaxResults, Drift, MaxTime, MaxFaults} \subseteq Nat
  /\ Step > 0 /\ Step <= Hang /\ Wait > 0 /\ Ttl > 0 /\ Drift <= Slack

VARIABLES
  now,
  faults,   \* so far
  address,  \* whether the student has a forwarding address
  grant,    \* whether the credentials have Gmail access
  mails,    \* VTOP's mails on their way, and what the edge does with them
  inbox,    \* the student's Gmail, oldest mail first
  mailed,   \* challenges VTOP sent a mail for
  waiters,  \* the Mailbox's waiters, by sign-in
  calls,    \* awaitCode calls
  signin,   \* each sign-in
  due,      \* sign-ins whose code came while they waited for it,
  hurt      \* and those a bad connection or a failed call may cost their code

vars == <<now, faults, address, grant, mails, inbox, mailed, waiters, calls, signin, due, hurt>>

Codes == SignIns \cup Foreign  \* a code is known by the sign-in it is for
NoCode == "none"
NoAddress == "no address"
NoWaiter == [results |-> <<"none">>]

Waiting == {"register", "await"}
Phases == {"idle", "refresh", "vtop", "look", "poll", "read", "pause", "submit", "report",
           "over"} \cup Waiting
Outcomes == {"none", "ok", "invalid", "failed", "no code", "vault_unusable",
             "forwarding_required", "gmail_revoked"}

SignIn == [pc: Phases, gmail: BOOLEAN, began: Nat, issued: Nat, deadline: Nat,
           by: Nat,  \* when its call or poll has ended, or its sleep ends
           tried: SUBSET Codes, code: Codes \cup {NoCode}, outcome: Outcomes,
           late: BOOLEAN, reports: 0..2]
Mail == [code: Codes, sentAt: Nat, todo: {{"sent"}} \cup SUBSET SignIns]
Call == [of: SignIns, wait: 0..Step, since: Nat, until: Nat,
         pc: {"asked", "parked", "answered"}, woken: BOOLEAN,
         answer: Codes \cup {NoCode, NoAddress}, cut: BOOLEAN]

TypeOK ==
  /\ now \in Nat /\ faults \in 0..MaxFaults
  /\ address \in BOOLEAN /\ grant \in BOOLEAN
  /\ mails \subseteq Mail /\ mailed \subseteq Codes
  /\ inbox \in Seq([code: Codes, at: Nat])
  /\ \A s \in SignIns : \/ waiters[s] = NoWaiter
                        \/ waiters[s] \in [since: Nat, expires: Nat, results: Seq(Codes)]
  /\ calls \subseteq Call
  /\ signin \in [SignIns -> SignIn]
  /\ \A s \in SignIns :
       Cardinality({c \in calls : c.of = s /\ ~c.cut})
         = IF signin[s].pc \in Waiting THEN 1 ELSE 0
  /\ due \subseteq SignIns /\ hurt \subseteq SignIns

Idle ==
  [pc |-> "idle", gmail |-> FALSE, began |-> 0, issued |-> 0, deadline |-> 0, by |-> 0,
   tried |-> {}, code |-> NoCode, outcome |-> "none", late |-> FALSE, reports |-> 0]

Init ==
  /\ now = Slack /\ faults = 0
  /\ address \in BOOLEAN /\ grant \in BOOLEAN
  /\ mails = {} /\ inbox = << >> /\ mailed = {}
  /\ waiters = [s \in SignIns |-> NoWaiter]
  /\ calls = {}
  /\ signin = [s \in SignIns |-> Idle]
  /\ due = {} /\ hurt = {}

(***************************************************************************)
(* Helpers.                                                                *)
(***************************************************************************)
At(s, pc) == signin[s].pc = pc
Goes(s, pc) == signin' = [signin EXCEPT ![s].pc = pc]

Ends(s, outcome) ==
  signin' = [signin EXCEPT ![s].pc = "report", ![s].outcome = outcome]

\* saturating_sub.  Mutant: below zero.
Minus(time, secs) == time - secs
Before(time, secs) == IF time >= secs THEN time - secs ELSE 0
Least(a, b) == IF a <= b THEN a ELSE b

Fault == faults < MaxFaults /\ faults' = faults + 1

Live(s) == {c \in calls : c.of = s /\ ~c.cut}

\* ForwardedCodes asks the edge to wait for a code.
Asks(s, since, wait) ==
  calls' = calls \cup
    {[of |-> s, wait |-> wait, since |-> since, until |-> 0, pc |-> "asked",
      woken |-> FALSE, answer |-> NoCode, cut |-> FALSE]}

\* wait_for_otp: the next poll.
Sleeps(s, until) == signin' = [signin EXCEPT ![s].pc = "poll", ![s].by = until]

Edge == <<mails, inbox, mailed, waiters, calls>>
Engine == <<signin, due, hurt>>
Student == <<address, grant>>

(***************************************************************************)
(* The engine.                                                             *)
(***************************************************************************)
\* sign_in: unsealed credentials, then register(), before VTOP is asked for
\* a code.  Mutant: VTOP first.
AsksVtopFirst(s) ==
  /\ At(s, "idle") /\ now <= MaxTime
  /\ signin' = [signin EXCEPT ![s].pc = "vtop", ![s].began = now]
  /\ UNCHANGED <<now, faults, Student, Edge, due, hurt>>

Begin(s) ==
  /\ At(s, "idle") /\ now <= MaxTime
  /\ \/ /\ signin' = [signin EXCEPT ![s].pc = "register", ![s].began = now, ![s].by = now + Hang]
        /\ Asks(s, Before(now, Slack), 0)
     \/ Ends(s, "vault_unusable") /\ UNCHANGED calls
  /\ UNCHANGED <<now, faults, Student, mails, inbox, mailed, waiters, due, hurt>>

\* sign_in, after register(): Gmail only for students without an address.
Registered(s, answer) ==
  IF answer # NoAddress THEN Goes(s, "vtop")
  ELSE IF grant THEN signin' = [signin EXCEPT ![s].pc = "refresh", ![s].gmail = TRUE]
  ELSE Ends(s, "forwarding_required")

\* ForwardedCodes::next, on the edge's answer; without an address the sign-in
\* fails as forwarding_required.
Awaited(s, answer) ==
  IF answer = NoAddress THEN Ends(s, "forwarding_required")
  ELSE IF answer \in Codes \ signin[s].tried
  THEN signin' = [signin EXCEPT ![s].pc = "submit", ![s].code = answer]
  ELSE Goes(s, "look")

Hears(s) ==
  \E c \in Live(s) :
    /\ c.pc = "answered"
    /\ calls' = calls \ {c}
    /\ \/ At(s, "register") /\ Registered(s, c.answer)
       \/ At(s, "await") /\ Awaited(s, c.answer)
    /\ UNCHANGED <<now, faults, Student, mails, inbox, mailed, waiters, due, hurt>>

\* The connection hangs: what is on its way takes its time from now on.
Hangs(s) ==
  /\ Fault
  /\ Live(s) # {} /\ hurt' = hurt \cup {s}
  /\ UNCHANGED <<now, Student, Edge, signin, due>>

\* The connection breaks, or the call's timeout is over: the wait, if it came
\* to that, goes on at the edge.  The engine asks VTOP without having
\* registered, or asks the edge again.  Mutant: as without an address.
CutForGood(s) ==
  \E c \in Live(s) :
    /\ Fault
    /\ calls' = calls \ {c}
    /\ Ends(s, "forwarding_required")
    /\ hurt' = hurt \cup {s}
    /\ UNCHANGED <<now, Student, mails, inbox, mailed, waiters, due>>

Cut(s) ==
  \E c \in Live(s) :
    /\ IF now >= signin[s].by THEN UNCHANGED faults ELSE Fault
    /\ \E heard \in BOOLEAN :
         /\ c.pc # "asked" => heard
         /\ calls' = (calls \ {c}) \cup
                       (IF heard /\ c.pc # "answered" THEN {[c EXCEPT !.cut = TRUE]} ELSE {})
         /\ hurt' = hurt \cup
              {x \in {s} : IF At(s, "register") THEN c.pc = "asked" ELSE heard}
    /\ Goes(s, IF At(s, "register") THEN "vtop" ELSE "pause")
    /\ UNCHANGED <<now, Student, mails, inbox, mailed, waiters, due>>

Resumes(s) ==
  /\ At(s, "pause")
  /\ Goes(s, "look")
  /\ UNCHANGED <<now, faults, Student, Edge, due, hurt>>

\* GmailRefresher::refresh
Refresh(s) ==
  /\ At(s, "refresh")
  /\ Goes(s, "vtop") \/ Ends(s, "gmail_revoked") \/ Ends(s, "failed")
  /\ UNCHANGED <<now, faults, Student, Edge, due, hurt>>

\* signed_in: the session has to be the account's.
SignedIn(s) == Ends(s, "ok") \/ Ends(s, "vault_unusable")

\* VtopClient::login: VTOP lets the student in, refuses, fails, or mails a
\* code.
Login(s) ==
  /\ At(s, "vtop")
  /\ \/ /\ SignedIn(s) \/ Ends(s, "invalid") \/ Ends(s, "failed")
        /\ UNCHANGED <<mails, mailed>>
     \/ /\ now <= MaxTime
        /\ signin' = [signin EXCEPT ![s].pc = "look", ![s].issued = now,
                                    ![s].deadline = now + Wait]
        /\ \E behind \in 0..Drift :
             mails' = mails \cup {[code |-> s, sentAt |-> now - behind, todo |-> {"sent"}]}
        /\ mailed' = mailed \cup {s}
  /\ UNCHANGED <<now, faults, Student, inbox, waiters, calls, due, hurt>>

\* The rest of the wait, in steps.  Mutant: each a whole one.
WholeSteps(left) == Step
StepOf(left) == Least(left, Step)

\* login_with_otp_from and ForwardedCodes::next: another wait while there is
\* time.  Mutant: and when there is none.
LookAgain(s) ==
  LET left == Before(signin[s].deadline, now)
  IN /\ At(s, "look")
     /\ IF signin[s].gmail THEN Sleeps(s, now) /\ UNCHANGED calls
        ELSE /\ signin' = [signin EXCEPT ![s].pc = "await", ![s].by = now + Hang]
             /\ Asks(s, Before(signin[s].issued, Slack), StepOf(left))
     /\ UNCHANGED <<now, faults, Student, mails, inbox, mailed, waiters, due, hurt>>

Look(s) ==
  LET left == Before(signin[s].deadline, now)
  IN /\ At(s, "look")
     /\ IF left = 0 THEN Ends(s, "no code") /\ UNCHANGED calls
        ELSE IF signin[s].gmail THEN Sleeps(s, now) /\ UNCHANGED calls
        ELSE /\ signin' = [signin EXCEPT ![s].pc = "await", ![s].by = now + Hang]
             /\ Asks(s, Before(signin[s].issued, Slack), StepOf(left))
     /\ UNCHANGED <<now, faults, Student, mails, inbox, mailed, waiters, due, hurt>>

\* newest_otp: of the newest mails, those since the code was issued, without
\* those whose codes VTOP refused.
Listed(s) ==
  {i \in DOMAIN inbox : /\ i + MaxResults > Len(inbox)
                        /\ inbox[i].at >= Before(signin[s].issued, Slack)}

Candidates(s) == {i \in Listed(s) : inbox[i].code \notin signin[s].tried}

Newest(s, code) ==
  IF Candidates(s) = {} THEN code = NoCode
  ELSE \E i \in Candidates(s) : /\ \A j \in Candidates(s) : j <= i
                                /\ code = inbox[i].code

\* Gmail lists the mails there are; then the engine reads them.
Lists(s) ==
  /\ At(s, "poll") /\ now >= signin[s].by
  /\ \E code \in Codes \cup {NoCode} :
       /\ Newest(s, code)
       /\ signin' = [signin EXCEPT ![s].pc = "read", ![s].by = now + Reading, ![s].code = code]
  /\ UNCHANGED <<now, faults, Student, Edge, due, hurt>>

\* wait_for_otp: a code, or another poll if there is time for one.
Reads(s) ==
  /\ At(s, "read")
  /\ IF signin[s].code # NoCode THEN Goes(s, "submit")
     ELSE IF now + Step > signin[s].deadline THEN Ends(s, "no code")
     ELSE Sleeps(s, now + Step)
  /\ UNCHANGED <<now, faults, Student, Edge, due, hurt>>

\* Gmail fails, or the access token is about to lapse.
PollFails(s) ==
  /\ Fault
  /\ At(s, "read")
  /\ Ends(s, "no code")
  /\ hurt' = hurt \cup {s}
  /\ UNCHANGED <<now, Student, Edge, due>>

\* submit_security_otp: VTOP takes the sign-in's code, and its mail is tidied
\* away where one can; it refuses any other, and may refuse this one; or the
\* request fails.
Submit(s) ==
  LET r == signin[s]
  IN /\ At(s, "submit")
     /\ \/ /\ r.code = s /\ SignedIn(s)
           /\ \/ UNCHANGED inbox
             \/ \E i \in DOMAIN inbox :
                  r.gmail /\ inbox[i].code = s /\ inbox' = RemoveAt(inbox, i)
        \/ /\ signin' = [signin EXCEPT ![s].pc = "look", ![s].tried = @ \cup {r.code},
                           ![s].code = NoCode, ![s].late = now >= r.deadline]
           /\ UNCHANGED inbox
        \/ Ends(s, "failed") /\ UNCHANGED inbox
     /\ UNCHANGED <<now, faults, Student, mails, mailed, waiters, calls, due, hurt>>

\* login tells the edge, three times at most.
Report(s) ==
  /\ At(s, "report")
  /\ \/ signin' = [signin EXCEPT ![s] = [Idle EXCEPT !.pc = "over"]]
     \/ /\ signin[s].reports < 2
        /\ signin' = [signin EXCEPT ![s].reports = @ + 1]
  /\ UNCHANGED <<now, faults, Student, Edge, due, hurt>>

(***************************************************************************)
(* The Mailbox object.                                                     *)
(***************************************************************************)
\* The answer of call c; nobody hears that of a broken connection.
Answers(c, answer) ==
  calls' = (calls \ {c}) \cup
    (IF c.cut THEN {} ELSE {[c EXCEPT !.pc = "answered", !.answer = answer]})

\* awaitCode's loop with waiter w: the oldest code, or it goes to sleep.
Over(until) == now >= until

LooksAt(c, w, until) ==
  IF w # NoWaiter /\ w.results # << >>
  THEN /\ waiters' = [waiters EXCEPT ![c.of].results = Tail(w.results)]
       /\ Answers(c, Head(w.results))
  ELSE /\ waiters' = [waiters EXCEPT ![c.of] = w]
       /\ IF Over(until) THEN Answers(c, NoCode)
          ELSE calls' = (calls \ {c}) \cup
                 {[c EXCEPT !.pc = "parked", !.until = until, !.woken = FALSE]}

\* awaitCode: the waiter is made if there is none, and is not renewed.
AwaitCode(c) ==
  LET w == IF waiters[c.of] # NoWaiter THEN waiters[c.of]
           ELSE [since |-> c.since, expires |-> now + Ttl, results |-> << >>]
  IN /\ c.pc = "asked"
     /\ IF address THEN LooksAt(c, w, now + c.wait)
        ELSE Answers(c, NoAddress) /\ UNCHANGED waiters
     /\ UNCHANGED <<now, faults, Student, mails, inbox, mailed, Engine>>

\* A parked call looks again when it is woken or its time is over.
MayLook(c) == c.pc = "parked" /\ (c.woken \/ Over(c.until))

Awake(c) ==
  /\ MayLook(c)
  /\ LooksAt(c, waiters[c.of], c.until)
  /\ UNCHANGED <<now, faults, Student, mails, inbox, mailed, Engine>>

\* waiters() and alarm(): expired ones are dropped.
Expired(s) == waiters[s] # NoWaiter /\ waiters[s].expires <= now
Kept == [s \in SignIns |-> IF Expired(s) THEN NoWaiter ELSE waiters[s]]

\* wants
Wants(w, sentAt) == w # NoWaiter /\ now < w.expires /\ sentAt >= w.since

\* Whether s, still waiting for its code, can have it from a mail now: Gmail's
\* list may just have been asked for, so that it takes another one.
InTime(s) ==
  LET r == signin[s]
  IN /\ r.pc \in {"look", "poll", "read", "await", "pause", "submit"}
     /\ now < r.deadline
     /\ IF r.gmail THEN grant /\ (r.pc = "read" => now + Reading + Step <= r.deadline)
        ELSE address /\ now < r.began + Ttl

\* A mail reaches the student's Gmail, from where it is forwarded; email()
\* stores it and looks who waits for it.  The mail server may send it again.
Arrives(m) ==
  /\ m.todo = {"sent"}
  /\ \E again \in BOOLEAN :
       LET todo == IF address THEN {s \in SignIns : Wants(Kept[s], m.sentAt)} ELSE {}
       IN /\ IF again THEN Fault ELSE UNCHANGED faults
          /\ mails' = (IF again THEN mails ELSE mails \ {m}) \cup
                        (IF todo = {} THEN {} ELSE {[m EXCEPT !.todo = todo]})
  /\ inbox' = IF grant /\ \A i \in DOMAIN inbox : inbox[i].code # m.code
              THEN Append(inbox, [code |-> m.code, at |-> now]) ELSE inbox
  /\ waiters' = IF address THEN Kept ELSE waiters
  /\ due' = (due \ {s \in SignIns : address /\ Expired(s)})
              \cup {s \in SignIns : s = m.code /\ InTime(s)}
  /\ UNCHANGED <<now, Student, mailed, calls, signin, hurt>>

Handed(m, s) ==
  mails' = (mails \ {m}) \cup
             (IF m.todo = {s} THEN {} ELSE {[m EXCEPT !.todo = @ \ {s}]})

\* waiterResult, which wakes who waits.
Stores(m, s) ==
  waiters' = IF waiters[s] = NoWaiter THEN waiters
             ELSE [waiters EXCEPT ![s].results = Append(@, m.code)]

Hand(m) ==
  \E s \in m.todo \cap SignIns :
    /\ Handed(m, s) /\ Stores(m, s)
    /\ calls' = IF waiters[s] = NoWaiter THEN calls
                ELSE {IF c.of = s /\ c.pc = "parked" THEN [c EXCEPT !.woken = TRUE] ELSE c : c \in calls}
    /\ UNCHANGED <<now, faults, Student, inbox, mailed, Engine>>

\* handToWaiters fails: the rest of the waiters get nothing.
HandFails(m) ==
  /\ Fault
  /\ m.todo # {"sent"}
  /\ mails' = mails \ {m}
  /\ hurt' = hurt \cup m.todo
  /\ UNCHANGED <<now, Student, inbox, mailed, waiters, calls, signin, due>>

\* alarm, set for some time after a waiter expires
Alarm ==
  /\ \E s \in SignIns : Expired(s)
  /\ waiters' = Kept
  /\ due' = due \ {s \in SignIns : Expired(s)}
  /\ UNCHANGED <<now, faults, Student, mails, inbox, mailed, calls, signin, hurt>>

(***************************************************************************)
(* The student, VTOP and the clock.                                        *)
(***************************************************************************)
\* Another sign-in of the student is asked for a code.
ForeignSignIn(f) ==
  /\ now <= MaxTime /\ f \notin mailed
  /\ \E behind \in 0..Drift :
       mails' = mails \cup {[code |-> f, sentAt |-> now - behind, todo |-> {"sent"}]}
  /\ mailed' = mailed \cup {f}
  /\ UNCHANGED <<now, faults, Student, inbox, waiters, calls, Engine>>

\* mailDelete: the object is wiped, its calls are not.
DeleteAddress ==
  /\ Fault
  /\ address /\ address' = FALSE
  /\ waiters' = [s \in SignIns |-> NoWaiter]
  /\ due' = {}
  /\ UNCHANGED <<now, grant, mails, inbox, mailed, calls, signin, hurt>>

\* Calls between the engine and the edge take no time while the connection is
\* sound, otherwise up to the timeout; those to VTOP may take any, and those to
\* Gmail up to theirs.
AtOnce ==
  \/ \E c \in calls : MayLook(c) \/ (c.pc # "parked" /\ c.of \notin hurt)
  \/ \E m \in mails : m.todo # {"sent"}
  \/ \E s \in SignIns :
       \/ signin[s].pc \in {"look", "pause"}
       \/ signin[s].pc \in {"poll", "read"} \cup Waiting /\ now >= signin[s].by

Tick ==
  /\ ~AtOnce
  /\ now < MaxTime + Wait + Hang
  /\ now' = now + 1
  /\ UNCHANGED <<faults, Student, Edge, Engine>>

(***************************************************************************)
(* The specification.                                                      *)
(***************************************************************************)
SignInStep(s) ==
  \/ Begin(s) \/ Hears(s) \/ Hangs(s) \/ Cut(s) \/ Resumes(s) \/ Refresh(s) \/ Login(s)
  \/ Look(s) \/ Lists(s) \/ Reads(s) \/ PollFails(s) \/ Submit(s) \/ Report(s)

EdgeStep ==
  \/ \E c \in calls : AwaitCode(c) \/ Awake(c)
  \/ \E m \in mails : Arrives(m) \/ Hand(m) \/ HandFails(m)
  \/ Alarm

Next ==
  \/ \E s \in SignIns : SignInStep(s)
  \/ EdgeStep
  \/ \E f \in Foreign : ForeignSignIn(f)
  \/ DeleteAddress
  \/ Tick

Spec == Init /\ [][Next]_vars

\* Requests are answered or fail, a task and a timer of the object go on.
\* Mails need not arrive, and no sign-in has to begin.
FairSpec ==
  /\ Spec
  /\ \A s \in SignIns :
       WF_vars(\/ Hears(s) \/ Resumes(s) \/ Refresh(s) \/ Login(s) \/ Look(s)
               \/ Lists(s) \/ Reads(s) \/ Submit(s) \/ Report(s)
               \/ Cut(s) /\ UNCHANGED faults)
  /\ WF_vars(\E c \in calls : AwaitCode(c) \/ Awake(c))
  /\ WF_vars(\E m \in mails : Hand(m) \/ HandFails(m))
  /\ WF_vars(Tick)

(***************************************************************************)
(* Properties.                                                             *)
(***************************************************************************)
\* Who gives up for want of a code never had a chance: a code that came while
\* its sign-in waited for it, to a waiter or an inbox that was there, was
\* tried, whatever other codes came before it and whoever else waited.  Only
\* a failed hand-over, a registration the edge did not get, a wait whose
\* connection hung or broke, or VTOP taking until the deadline to refuse another
\* code may keep it from VTOP; and a mail that comes to Gmail after the last
\* list was asked for.  About the registration before VTOP is asked
\* (engine.rs:446), the sleep of awaitCode and the search of newest_otp.
NoCodeMissed ==
  \A s \in due \ hurt :
    signin[s].outcome = "no code" /\ ~signin[s].late => s \in signin[s].tried

\* A sign-in waits for codes as long as otp_wait says, though the wait is cut
\* into steps of the edge's and begins anew with every code VTOP refuses
\* (email_otp.rs:110-117, engine.rs:203-215), and then at most for the call or
\* the poll under way, which no deadline cuts short: a call whose connection
\* hangs ends with its own timeout (engine.rs:80), a poll when Gmail has
\* answered all its requests (gmail.rs:118-123).
WaitsInTime ==
  \A s \in SignIns :
    LET deadline == signin[s].issued + Wait
    IN /\ signin[s].pc \in {"await", "pause"}
            => now <= deadline + (IF s \in hurt THEN Hang ELSE 0)
       /\ signin[s].pc = "poll" => now <= deadline
       /\ signin[s].pc = "read" => now <= deadline + Reading

\* A student is told to set up forwarding only without an address: neither an
\* edge that cannot be reached nor a code that does not come looks like that
\* (engine.rs:446-471).
AskedToForward ==
  \A s \in SignIns : signin[s].outcome = "forwarding_required" => ~address

\* Every sign-in ends, so that the account object hears of it or its own
\* deadline is the only one that counts.
EverySignInEnds == \A s \in SignIns : ~At(s, "idle") ~> At(s, "over")

=============================================================================

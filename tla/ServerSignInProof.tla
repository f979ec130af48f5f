-------------------------- MODULE ServerSignInProof --------------------------
(***************************************************************************)
(* What holds of ServerSignIn for any sign-ins, times and faults.          *)
(*                                                                         *)
(* Three invariants, each needed for the next.  TypeInv: the types, and    *)
(* that a sign-in which waits for the edge has one call there that can     *)
(* still be heard.  TimeInv adds the times: what a call or a waiter was    *)
(* given when it began stays before the time VTOP was asked for a code,    *)
(* and a call's time within the sign-in's.  CodeInv adds where the code of *)
(* a sign-in is that came while it waited: in a mail that is being handed  *)
(* to the waiters, with the sign-in's waiter, in the answer of its call,   *)
(* submitted or tried, or in the inbox.  A waiter is there because the     *)
(* sign-in registered before it asked VTOP and waiters outlive sign-ins;   *)
(* no call sleeps while its waiter has a code; and time passes only when   *)
(* nothing of this is left to do at once, so that a code at the edge is    *)
(* looked at before the deadline.                                          *)
(*                                                                         *)
(* For forwarded codes this needs nothing more.  A student whose codes     *)
(* come from Gmail needs Listing: that newest_otp, which reads the newest  *)
(* MaxResults mails, sees the one with the code.                           *)
(***************************************************************************)
EXTENDS ServerSignIn, Integers, FiniteSetTheorems, SequenceTheorems, TLAPS

Waiter == [since: Nat, expires: Nat, results: Seq(Codes)]

(* What every variable holds.                                              *)
Typed ==
  /\ now \in Nat /\ faults \in 0..MaxFaults
  /\ address \in BOOLEAN /\ grant \in BOOLEAN
  /\ mails \subseteq Mail /\ mailed \subseteq Codes
  /\ inbox \in Seq([code: Codes, at: Nat])
  /\ waiters \in [SignIns -> {NoWaiter} \cup Waiter]
  /\ calls \subseteq Call
  /\ signin \in [SignIns -> SignIn]
  /\ due \subseteq SignIns /\ hurt \subseteq SignIns

(* A sign-in that waits for the edge has one call there, any other none.   *)
OneCall ==
  \A s \in SignIns :
    IF signin[s].pc \in Waiting THEN \E c \in calls : Live(s) = {c} ELSE Live(s) = {}

(* What is submitted is a code.                                            *)
Coded(r) == r.pc = "submit" => r.code \in Codes

TypeInv == Typed /\ OneCall /\ \A s \in SignIns : Coded(signin[s])

(* VTOP was asked for a code, and the sign-in is after it.                 *)
Seeking == {"look", "poll", "read", "await", "pause", "submit"}
Ended == {"report", "over"}

Times(s) ==
  LET r == signin[s]
  IN /\ r.began <= now
     /\ r.pc \in Seeking => /\ Slack <= r.issued /\ r.issued <= now
                            /\ r.began <= r.issued /\ r.deadline = r.issued + Wait
     /\ r.pc \in {"await", "pause"} /\ s \notin hurt => now <= r.deadline
     /\ r.pc \in {"await", "poll", "read"} => now <= r.by
     /\ r.pc = "await" => r.by <= r.deadline + Hang
     /\ r.pc = "pause" => now <= r.deadline + Hang
     /\ r.pc = "poll" => r.by <= r.deadline
     /\ r.pc = "read" => r.by <= r.deadline + Reading /\ r.by <= now + Reading
     /\ r.pc \in {"poll", "read", "refresh"} => r.gmail
     /\ r.gmail => ~address /\ r.pc \notin {"idle", "register", "await", "pause"}
     /\ r.outcome # "none" => r.pc = "report"
     /\ r.outcome = "forwarding_required" => ~address

CallTimes(c) ==
  LET r == signin[c.of]
  IN /\ r.pc # "idle"
     /\ c.since + Slack <= now
     /\ r.pc \in Seeking => c.since + Slack <= r.issued
     /\ c.answer = NoAddress => ~address
     /\ ~c.cut /\ r.pc = "register" => c.wait = 0 /\ c.pc # "parked"
     /\ ~c.cut /\ r.pc = "await" /\ c.of \notin hurt
          => /\ c.pc = "asked" => now + c.wait <= r.deadline
             /\ c.pc = "parked" => c.until <= r.deadline

Paced ==
  /\ Slack <= now
  /\ \A s \in SignIns : Times(s)
  /\ \A c \in calls : CallTimes(c)

TimeInv == TypeInv /\ Paced

(* What the edge has for a sign-in.                                        *)
WaiterTimes(s) ==
  LET r == signin[s]
      w == waiters[s]
  IN w # NoWaiter => /\ r.pc # "idle"
                     /\ r.began + Ttl <= w.expires
                     /\ w.since + Slack <= now
                     /\ r.pc \in Seeking => w.since + Slack <= r.issued

(* A registration the edge got, and that is not over.                      *)
Reached(s) ==
  \/ signin[s].pc \in {"vtop"} \cup Seeking
  \/ signin[s].pc = "register" /\ \E c \in Live(s) : c.pc = "answered"

Registration(s) ==
  Reached(s) /\ ~signin[s].gmail /\ address /\ s \notin hurt
    /\ now < signin[s].began + Ttl => waiters[s] # NoWaiter

Asleep(c) ==
  /\ c.pc = "parked" /\ ~c.woken /\ waiters[c.of] # NoWaiter => waiters[c.of].results = << >>
  /\ c.cut => c.of \in hurt /\ c.pc # "answered"

MailTimes(m) ==
  /\ m.code \in mailed
  /\ m.code \in SignIns /\ signin[m.code].pc \in Seeking => signin[m.code].issued <= m.sentAt + Slack

Mailed ==
  /\ \A s \in mailed \cap SignIns : signin[s].pc \in Seeking \cup Ended
  /\ due \subseteq mailed
  /\ \A m \in mails : MailTimes(m)
  /\ \A i \in DOMAIN inbox :
       /\ inbox[i].code \in mailed
       /\ inbox[i].code \in SignIns /\ signin[inbox[i].code].pc \in Seeking
            => signin[inbox[i].code].issued <= inbox[i].at

Handing(s, m) == m.code = s /\ m.todo # {"sent"} /\ s \in m.todo
Stored(s) == \E i \in DOMAIN waiters[s].results : waiters[s].results[i] = s
Answered(s, c) == c.pc = "answered" /\ c.answer = s

Underway(s) ==
  \/ \E m \in mails : Handing(s, m)
  \/ Stored(s)
  \/ \E c \in Live(s) : Answered(s, c)

Submitting(s) == signin[s].pc = "submit" /\ signin[s].code = s

InHand(s) ==
  LET r == signin[s]
  IN r.pc \in Seeking /\ ~r.gmail =>
       /\ address /\ waiters[s] # NoWaiter
       /\ \/ s \in r.tried \/ Submitting(s)
          \/ Underway(s) /\ (now < r.deadline \/ r.late \/ r.pc = "submit")

InInbox(s) ==
  LET r == signin[s]
  IN r.pc \in Seeking /\ r.gmail =>
       s \in r.tried \/ Submitting(s) \/ \E i \in DOMAIN inbox : inbox[i].code = s

GmailLook(s) ==
  LET r == signin[s]
  IN r.pc = "look" /\ r.gmail => now < r.deadline \/ r.late

(* A sign-in that gave up without its code, and one that has an address.   *)
GivenUp(s) == signin[s].outcome = "no code" /\ ~signin[s].late /\ s \notin signin[s].tried
Missed(s) == GivenUp(s) /\ ~signin[s].gmail

Watched(s) == WaiterTimes(s) /\ Registration(s) /\ GmailLook(s)
Safe(s) == s \in due \ hurt => InHand(s) /\ InInbox(s) /\ ~Missed(s)

CodeInv ==
  /\ TimeInv
  /\ \A s \in SignIns : Watched(s) /\ Safe(s)
  /\ \A c \in calls : Asleep(c)
  /\ Mailed

LEMMA Times0 ==
  /\ Wait \in Nat /\ Step \in Nat /\ Ttl \in Nat /\ Slack \in Nat /\ MaxResults \in Nat
  /\ Drift \in Nat /\ MaxTime \in Nat /\ MaxFaults \in Nat /\ Hang \in Nat /\ Reading \in Nat
  /\ Step > 0 /\ Wait > 0 /\ Ttl > 0 /\ Drift <= Slack
BY ClocksAssumption

LEMMA WaiterOther == ASSUME NEW w \in Waiter PROVE w # NoWaiter
<1>1. "since" \in DOMAIN w
  BY DEF Waiter
<1>2. "since" \notin DOMAIN NoWaiter
  BY DEF NoWaiter
<1> QED BY <1>1, <1>2

LEMMA InitTyped == Init => TypeInv
<1> SUFFICES ASSUME Init PROVE TypeInv
  OBVIOUS
<1>1. Typed
  BY Times0 DEF Init, Typed, SignIn, Idle, Phases, Outcomes, Mail, Call
<1>2. OneCall
  BY DEF Init, OneCall, Live, Idle, Waiting
<1>3. \A s \in SignIns : Coded(signin[s])
  BY DEF Init, Coded, Idle
<1> QED BY <1>1, <1>2, <1>3 DEF TypeInv

(* Who waits for the edge is as before, and nothing happens there.         *)
LEMMA CallsStay ==
  ASSUME OneCall, UNCHANGED calls,
         \A s \in SignIns : signin'[s].pc \in Waiting <=> signin[s].pc \in Waiting
  PROVE  OneCall'
BY DEF OneCall, Live

(* A call goes on as another, or is over if nobody hears it.               *)
LEMMA CallGoesOn ==
  ASSUME OneCall, UNCHANGED signin, NEW c \in calls, NEW D, NEW d,
         D = {d} \/ (D = {} /\ c.cut), d.of = c.of, d.cut = c.cut,
         calls' = (calls \ {c}) \cup D
  PROVE  OneCall'
<1> SUFFICES ASSUME NEW s \in SignIns
             PROVE  IF signin[s].pc \in Waiting THEN \E x \in calls' : Live(s)' = {x} ELSE Live(s)' = {}
  BY DEF OneCall
<1>1. CASE c \notin Live(s)
  <2>1. Live(s)' = Live(s)
    BY <1>1 DEF Live
  <2> QED BY <1>1, <2>1 DEF OneCall, Live
<1>2. CASE c \in Live(s)
  <2>1. Live(s) = {c} /\ signin[s].pc \in Waiting
    BY <1>2 DEF OneCall
  <2>2. Live(s)' = {d} /\ d \in calls'
    BY <1>2, <2>1 DEF Live
  <2> QED BY <2>1, <2>2
<1> QED BY <1>1, <1>2

(* The call of a sign-in is answered or lost.                              *)
LEMMA CallEnds ==
  ASSUME OneCall, NEW s \in SignIns, NEW c \in Live(s), NEW D,
         \A d \in D : d.cut = TRUE, calls' = (calls \ {c}) \cup D,
         signin'[s].pc \notin Waiting,
         \A x \in SignIns : x # s => signin'[x].pc = signin[x].pc
  PROVE  OneCall'
<1> SUFFICES ASSUME NEW x \in SignIns
             PROVE  IF signin'[x].pc \in Waiting THEN \E y \in calls' : Live(x)' = {y} ELSE Live(x)' = {}
  BY DEF OneCall
<1>1. CASE x = s
  BY <1>1 DEF OneCall, Live
<1>2. CASE x # s
  <2>1. Live(x)' = Live(x)
    BY <1>2 DEF Live
  <2> QED BY <1>2, <2>1 DEF OneCall, Live
<1> QED BY <1>1, <1>2

LEMMA CallBegins ==
  ASSUME OneCall, NEW s \in SignIns, signin[s].pc \notin Waiting, NEW d,
         d.of = s, d.cut = FALSE, calls' = calls \cup {d}, signin'[s].pc \in Waiting,
         \A x \in SignIns : x # s => signin'[x].pc = signin[x].pc
  PROVE  OneCall'
<1> SUFFICES ASSUME NEW x \in SignIns
             PROVE  IF signin'[x].pc \in Waiting THEN \E y \in calls' : Live(x)' = {y} ELSE Live(x)' = {}
  BY DEF OneCall
<1>1. CASE x = s
  BY <1>1 DEF OneCall, Live
<1>2. CASE x # s
  <2>1. Live(x)' = Live(x)
    BY <1>2 DEF Live
  <2> QED BY <1>2, <2>1 DEF OneCall, Live
<1> QED BY <1>1, <1>2

LEMMA SignInTyped ==
  ASSUME TypeInv, NEW s \in SignIns
  PROVE  /\ signin[s] \in SignIn
         /\ signin[s].pc \in Phases /\ signin[s].gmail \in BOOLEAN /\ signin[s].began \in Nat
         /\ signin[s].issued \in Nat /\ signin[s].deadline \in Nat /\ signin[s].tried \subseteq Codes
         /\ signin[s].code \in Codes \cup {NoCode} /\ signin[s].outcome \in Outcomes
         /\ signin[s].late \in BOOLEAN /\ signin[s].reports \in 0..2 /\ signin[s].by \in Nat
BY DEF TypeInv, Typed, SignIn

LEMMA CallTyped ==
  ASSUME TypeInv, NEW c \in calls
  PROVE  /\ c \in Call
         /\ c.of \in SignIns /\ c.wait \in 0..Step /\ c.since \in Nat /\ c.until \in Nat
         /\ c.pc \in {"asked", "parked", "answered"} /\ c.woken \in BOOLEAN
         /\ c.answer \in Codes \cup {NoCode, NoAddress} /\ c.cut \in BOOLEAN
         /\ c.wait \in Nat
<1>1. c \in Call
  BY DEF TypeInv, Typed
<1> QED BY <1>1, Times0 DEF Call

(* Seconds do not go below zero.                                           *)
LEMMA BeforeNat ==
  ASSUME NEW t \in Nat, NEW n \in Nat
  PROVE  Before(t, n) \in Nat /\ (n <= t => Before(t, n) = t - n)
BY DEF Before

LEMMA NewCall ==
  ASSUME NEW s \in SignIns, NEW since \in Nat, NEW wait \in 0..Step
  PROVE  [of |-> s, wait |-> wait, since |-> since, until |-> 0, pc |-> "asked",
          woken |-> FALSE, answer |-> NoCode, cut |-> FALSE] \in Call
BY DEF Call

LEMMA PhaseNames ==
  /\ "read" \in Phases \ Waiting /\ "submit" \in Phases \ Waiting
  /\ "vtop" \in Phases \ Waiting /\ "look" \in Phases \ Waiting /\ "poll" \in Phases \ Waiting
  /\ "pause" \in Phases \ Waiting /\ "await" \in Phases /\ "report" \in Phases \ Waiting
  /\ "over" \in Phases \ Waiting
BY DEF Phases, Waiting

(* The record of one sign-in changes.                                      *)
LEMMA Changes ==
  ASSUME TypeInv, NEW s \in SignIns, NEW r \in SignIn, signin' = [signin EXCEPT ![s] = r]
  PROVE  /\ signin' \in [SignIns -> SignIn]
         /\ signin'[s] = r
         /\ \A x \in SignIns : x # s => signin'[x] = signin[x]
BY DEF TypeInv, Typed

LEMMA GoesTo ==
  ASSUME TypeInv, NEW s \in SignIns, NEW pc \in Phases, Goes(s, pc)
  PROVE  /\ signin' \in [SignIns -> SignIn]
         /\ signin'[s] = [signin[s] EXCEPT !.pc = pc] /\ signin'[s].pc = pc
         /\ pc # "submit" => Coded(signin'[s])
         /\ \A x \in SignIns : x # s => signin'[x] = signin[x]
<1> DEFINE r == [signin[s] EXCEPT !.pc = pc]
<1>1. signin' = [signin EXCEPT ![s] = r]
  BY DEF Goes, TypeInv, Typed
<1>2. r \in SignIn /\ r.pc = pc
  BY SignInTyped DEF SignIn
<1> HIDE DEF r
<1>3. /\ signin' \in [SignIns -> SignIn] /\ signin'[s] = r
      /\ \A x \in SignIns : x # s => signin'[x] = signin[x]
  BY <1>1, <1>2, Changes
<1> QED BY <1>2, <1>3 DEF r, Coded

(* What is known of a sign-in after it fell asleep, asked or listed.       *)
Slept(s, pc, until, code) ==
  /\ signin' \in [SignIns -> SignIn]
  /\ signin'[s].pc = pc /\ signin'[s].by = until /\ signin'[s].code = code
  /\ signin'[s].gmail = signin[s].gmail /\ signin'[s].began = signin[s].began
  /\ signin'[s].issued = signin[s].issued /\ signin'[s].deadline = signin[s].deadline
  /\ signin'[s].outcome = signin[s].outcome /\ signin'[s].late = signin[s].late
  /\ signin'[s].tried = signin[s].tried
  /\ pc # "submit" => Coded(signin'[s])
  /\ \A x \in SignIns : x # s => signin'[x] = signin[x]

LEMMA SleepsTo ==
  ASSUME TypeInv, NEW s \in SignIns, NEW pc \in Phases, NEW until \in Nat, NEW code \in Codes \cup {NoCode},
         NEW r, r = [signin[s] EXCEPT !.pc = pc, !.by = until, !.code = code],
         signin' = [signin EXCEPT ![s] = r]
  PROVE  Slept(s, pc, until, code)
<1>1. /\ r \in SignIn /\ r.pc = pc /\ r.by = until /\ r.code = code
      /\ r.gmail = signin[s].gmail /\ r.began = signin[s].began
      /\ r.issued = signin[s].issued /\ r.deadline = signin[s].deadline
      /\ r.outcome = signin[s].outcome /\ r.late = signin[s].late /\ r.tried = signin[s].tried
  BY SignInTyped DEF SignIn
<1>2. /\ signin' \in [SignIns -> SignIn] /\ signin'[s] = r
      /\ \A x \in SignIns : x # s => signin'[x] = signin[x]
  BY <1>1, Changes
<1> QED BY <1>1, <1>2 DEF Coded, Slept

LEMMA SleepsSo ==
  ASSUME TypeInv, NEW s \in SignIns, NEW pc \in Phases, NEW until \in Nat,
         signin' = [signin EXCEPT ![s].pc = pc, ![s].by = until]
  PROVE  Slept(s, pc, until, signin[s].code)
<1>1. PICK code : code = signin[s].code
  OBVIOUS
<1>2. code \in Codes \cup {NoCode}
  BY <1>1, SignInTyped
<1>3. PICK r : r = [signin[s] EXCEPT !.pc = pc, !.by = until, !.code = code]
  OBVIOUS
<1>4. signin' = [signin EXCEPT ![s] = r]
  BY <1>1, <1>3 DEF TypeInv, Typed, SignIn
<1>5. Slept(s, pc, until, code)
  BY <1>2, <1>3, <1>4, SleepsTo
<1> QED BY <1>1, <1>5

LEMMA ListsSo ==
  ASSUME TypeInv, NEW s \in SignIns, Lists(s)
  PROVE  \E code \in Codes \cup {NoCode} : Newest(s, code) /\ Slept(s, "read", now + Reading, code)
<1>1. PICK code \in Codes \cup {NoCode} :
        /\ Newest(s, code)
        /\ signin' = [signin EXCEPT ![s].pc = "read", ![s].by = now + Reading, ![s].code = code]
  BY DEF Lists
<1>2. PICK until : until = now + Reading
  OBVIOUS
<1>3. until \in Nat
  BY <1>2, Times0 DEF TypeInv, Typed
<1>4. PICK r : r = [signin[s] EXCEPT !.pc = "read", !.by = until, !.code = code]
  OBVIOUS
<1>5. signin' = [signin EXCEPT ![s] = r]
  BY <1>1, <1>2, <1>4 DEF TypeInv, Typed, SignIn
<1>6. "read" \in Phases
  BY PhaseNames
<1>7. Slept(s, "read", until, code)
  BY <1>3, <1>4, <1>5, <1>6, SleepsTo
<1> QED BY <1>1, <1>2, <1>7

LEMMA EndsWith ==
  ASSUME TypeInv, NEW s \in SignIns, NEW outcome \in Outcomes, Ends(s, outcome)
  PROVE  /\ signin' \in [SignIns -> SignIn]
         /\ signin'[s] = [signin[s] EXCEPT !.pc = "report", !.outcome = outcome]
         /\ signin'[s].pc = "report" /\ signin'[s].outcome = outcome
         /\ Coded(signin'[s])
         /\ \A x \in SignIns : x # s => signin'[x] = signin[x]
<1> DEFINE r == [signin[s] EXCEPT !.pc = "report", !.outcome = outcome]
<1>1. signin' = [signin EXCEPT ![s] = r]
  BY DEF Ends, TypeInv, Typed, SignIn
<1>2. r \in SignIn /\ r.pc = "report" /\ r.outcome = outcome
  BY SignInTyped DEF SignIn, Phases
<1> HIDE DEF r
<1>3. /\ signin' \in [SignIns -> SignIn] /\ signin'[s] = r
      /\ \A x \in SignIns : x # s => signin'[x] = signin[x]
  BY <1>1, <1>2, Changes
<1> QED BY <1>2, <1>3 DEF r, Coded

(* Steps of a sign-in that leave the edge alone.                           *)
LEMMA QuietTyped ==
  ASSUME TypeInv, NEW s \in SignIns, signin' \in [SignIns -> SignIn],
         \A x \in SignIns : x # s => signin'[x] = signin[x],
         signin'[s].pc \notin Waiting, signin[s].pc \notin Waiting, Coded(signin'[s]),
         faults' \in 0..MaxFaults, inbox' \in Seq([code: Codes, at: Nat]),
         mails' \subseteq Mail, mailed' \subseteq Codes,
         hurt' \subseteq SignIns, UNCHANGED <<now, Student, waiters, calls, due>>
  PROVE  TypeInv'
<1>1. Typed'
  BY DEF TypeInv, Typed, Student
<1>2. OneCall'
  BY CallsStay DEF TypeInv, Typed
<1>3. \A x \in SignIns : Coded(signin'[x])
  BY DEF TypeInv
<1> QED BY <1>1, <1>2, <1>3 DEF TypeInv

LEMMA BeginTyped ==
  ASSUME TypeInv, NEW s \in SignIns, Begin(s)
  PROVE  TypeInv'
<1> USE SignInTyped, Times0
<1>0. now \in Nat /\ signin[s].pc \notin Waiting
  BY DEF Begin, At, Waiting, TypeInv, Typed
<1>1. CASE Ends(s, "vault_unusable") /\ UNCHANGED calls
  <2>1. /\ signin' \in [SignIns -> SignIn] /\ signin'[s].pc \notin Waiting /\ Coded(signin'[s])
        /\ \A x \in SignIns : x # s => signin'[x] = signin[x]
    BY <1>1, EndsWith DEF Outcomes, Waiting
  <2>3. Typed
    BY DEF TypeInv
  <2>4. faults' \in 0..MaxFaults /\ inbox' \in Seq([code: Codes, at: Nat]) /\ mails' \subseteq Mail
        /\ mailed' \subseteq Codes /\ hurt' \subseteq SignIns /\ UNCHANGED <<now, Student, waiters, calls, due>>
    BY <1>1, <2>3 DEF Begin, Typed, Student
  <2> QED BY <1>0, <2>1, <2>4, QuietTyped
<1>2. CASE signin' = [signin EXCEPT ![s].pc = "register", ![s].began = now, ![s].by = now + Hang]
           /\ Asks(s, Before(now, Slack), 0)
  <2> DEFINE r == [signin[s] EXCEPT !.pc = "register", !.began = now, !.by = now + Hang]
  <2>0a. now + Hang \in Nat
    BY <1>0
  <2>0. signin' = [signin EXCEPT ![s] = r] /\ r \in SignIn /\ r.pc = "register"
    BY <1>0, <1>2, <2>0a DEF TypeInv, Typed, SignIn, Phases, Waiting
  <2> HIDE DEF r
  <2>1. signin' \in [SignIns -> SignIn] /\ signin'[s].pc = "register"
        /\ \A x \in SignIns : x # s => signin'[x] = signin[x]
    BY <2>0, Changes
  <2> DEFINE d == [of |-> s, wait |-> 0, since |-> Before(now, Slack), until |-> 0, pc |-> "asked",
                   woken |-> FALSE, answer |-> NoCode, cut |-> FALSE]
  <2>2. calls' = calls \cup {d} /\ d \in Call
    BY <1>0, <1>2, NewCall, BeforeNat DEF Asks
  <2>3. d.of = s /\ d.cut = FALSE
    OBVIOUS
  <2> HIDE DEF d
  <2>4. Typed'
    BY <2>1, <2>2 DEF TypeInv, Typed, Begin, Student
  <2>5. signin'[s].pc \in Waiting /\ \A x \in SignIns : x # s => signin'[x].pc = signin[x].pc
    BY <2>1 DEF Waiting
  <2>6. OneCall'
    BY <1>0, <2>2, <2>3, <2>5, CallBegins DEF TypeInv
  <2>7. \A x \in SignIns : Coded(signin'[x])
    BY <2>1 DEF TypeInv, Coded
  <2> QED BY <2>4, <2>6, <2>7 DEF TypeInv
<1> QED BY <1>1, <1>2 DEF Begin

LEMMA RegisteredTyped ==
  ASSUME TypeInv, NEW s \in SignIns, NEW answer, Registered(s, answer)
  PROVE  /\ signin' \in [SignIns -> SignIn] /\ signin'[s].pc \notin Waiting /\ Coded(signin'[s])
         /\ \A x \in SignIns : x # s => signin'[x] = signin[x]
<1>1. CASE Goes(s, "vtop")
  BY <1>1, GoesTo, PhaseNames
<1>2. CASE Ends(s, "forwarding_required")
  BY <1>2, EndsWith DEF Outcomes, Waiting
<1>3. CASE signin' = [signin EXCEPT ![s].pc = "refresh", ![s].gmail = TRUE]
  <2> DEFINE r == [signin[s] EXCEPT !.pc = "refresh", !.gmail = TRUE]
  <2>1. signin' = [signin EXCEPT ![s] = r] /\ r \in SignIn /\ r.pc = "refresh"
    BY <1>3, SignInTyped DEF TypeInv, Typed, SignIn, Phases
  <2> HIDE DEF r
  <2> QED BY <2>1, Changes DEF Waiting, Coded
<1> QED BY <1>1, <1>2, <1>3 DEF Registered

LEMMA AwaitedTyped ==
  ASSUME TypeInv, NEW s \in SignIns, NEW answer, Awaited(s, answer)
  PROVE  /\ signin' \in [SignIns -> SignIn] /\ signin'[s].pc \notin Waiting /\ Coded(signin'[s])
         /\ \A x \in SignIns : x # s => signin'[x] = signin[x]
<1>1. CASE Goes(s, "look")
  BY <1>1, GoesTo, PhaseNames
<1>2. CASE Ends(s, "forwarding_required")
  BY <1>2, EndsWith DEF Outcomes, Waiting
<1>3. CASE answer \in Codes /\ signin' = [signin EXCEPT ![s].pc = "submit", ![s].code = answer]
  <2> DEFINE r == [signin[s] EXCEPT !.pc = "submit", !.code = answer]
  <2>1. signin' = [signin EXCEPT ![s] = r] /\ r \in SignIn /\ r.pc = "submit" /\ r.code \in Codes
    BY <1>3, SignInTyped DEF TypeInv, Typed, SignIn, Phases
  <2> HIDE DEF r
  <2> QED BY <2>1, Changes DEF Waiting, Coded
<1> QED BY <1>1, <1>2, <1>3 DEF Awaited

LEMMA HearsTyped ==
  ASSUME TypeInv, NEW s \in SignIns, Hears(s)
  PROVE  TypeInv'
<1>1. PICK c \in Live(s) :
        /\ c.pc = "answered" /\ calls' = calls \ {c}
        /\ \/ At(s, "register") /\ Registered(s, c.answer)
           \/ At(s, "await") /\ Awaited(s, c.answer)
        /\ UNCHANGED <<now, faults, Student, mails, inbox, mailed, waiters, due, hurt>>
  BY DEF Hears
<1>2. /\ signin' \in [SignIns -> SignIn] /\ signin'[s].pc \notin Waiting /\ Coded(signin'[s])
      /\ \A x \in SignIns : x # s => signin'[x] = signin[x]
  BY <1>1, RegisteredTyped, AwaitedTyped
<1>3. Typed'
  BY <1>1, <1>2 DEF TypeInv, Typed, Student
<1>5. OneCall'
  <2> DEFINE D == {}
  <2>1. \A d \in D : d.cut = TRUE
    OBVIOUS
  <2>2. calls' = (calls \ {c}) \cup D /\ \A x \in SignIns : x # s => signin'[x].pc = signin[x].pc
    BY <1>1, <1>2
  <2> HIDE DEF D
  <2> QED BY <1>2, <2>1, <2>2, CallEnds DEF TypeInv
<1>6. \A x \in SignIns : Coded(signin'[x])
  BY <1>2 DEF TypeInv
<1> QED BY <1>3, <1>5, <1>6 DEF TypeInv

LEMMA FaultTyped ==
  ASSUME TypeInv, Fault
  PROVE  faults' \in 0..MaxFaults
BY Times0 DEF TypeInv, Typed, Fault

LEMMA CutTyped ==
  ASSUME TypeInv, NEW s \in SignIns, Cut(s)
  PROVE  TypeInv'
<1>1. PICK c \in Live(s), heard \in BOOLEAN :
        /\ calls' = (calls \ {c}) \cup
                      (IF heard /\ c.pc # "answered" THEN {[c EXCEPT !.cut = TRUE]} ELSE {})
        /\ hurt' = hurt \cup
             {x \in {s} : IF At(s, "register") THEN c.pc = "asked" ELSE heard}
        /\ Goes(s, IF At(s, "register") THEN "vtop" ELSE "pause")
  BY DEF Cut
<1>2. /\ signin' \in [SignIns -> SignIn] /\ signin'[s].pc \notin Waiting /\ Coded(signin'[s])
      /\ \A x \in SignIns : x # s => signin'[x] = signin[x]
  BY <1>1, GoesTo, PhaseNames
<1>3. faults' \in 0..MaxFaults
  BY FaultTyped DEF Cut, TypeInv, Typed
<1>4. c \in calls /\ c \in Call
  BY CallTyped DEF Live
<1>5. [c EXCEPT !.cut = TRUE] \in Call /\ [c EXCEPT !.cut = TRUE].cut = TRUE
  BY <1>4 DEF Call
<1>6. calls' \subseteq Call
  BY <1>1, <1>5 DEF TypeInv, Typed
<1>7. hurt' \subseteq SignIns
  BY <1>1 DEF TypeInv, Typed
<1>8. Typed'
  BY <1>2, <1>3, <1>6, <1>7 DEF TypeInv, Typed, Cut, Student
<1>9. OneCall'
  <2> DEFINE D == IF heard /\ c.pc # "answered" THEN {[c EXCEPT !.cut = TRUE]} ELSE {}
  <2>1. \A d \in D : d.cut = TRUE
    BY <1>5
  <2>2. calls' = (calls \ {c}) \cup D /\ \A x \in SignIns : x # s => signin'[x].pc = signin[x].pc
    BY <1>1, <1>2
  <2> HIDE DEF D
  <2> QED BY <1>2, <2>1, <2>2, CallEnds DEF TypeInv
<1>10. \A x \in SignIns : Coded(signin'[x])
  BY <1>2 DEF TypeInv
<1> QED BY <1>8, <1>9, <1>10 DEF TypeInv

LEMMA HangsTyped ==
  ASSUME TypeInv, NEW s \in SignIns, Hangs(s)
  PROVE  TypeInv'
<1>1. faults' \in 0..MaxFaults /\ hurt' \subseteq SignIns
  BY FaultTyped DEF Hangs, TypeInv, Typed
<1>2. Typed' /\ UNCHANGED <<signin, calls>>
  BY <1>1 DEF Hangs, TypeInv, Typed, Student, Edge
<1>3. OneCall'
  BY <1>2, CallsStay DEF TypeInv
<1> QED BY <1>2, <1>3 DEF TypeInv

LEMMA ResumesTyped ==
  ASSUME TypeInv, NEW s \in SignIns, Resumes(s)
  PROVE  TypeInv'
<1>1. /\ signin' \in [SignIns -> SignIn] /\ signin'[s].pc \notin Waiting /\ Coded(signin'[s]) /\ signin[s].pc \notin Waiting
      /\ \A x \in SignIns : x # s => signin'[x] = signin[x]
  BY GoesTo, PhaseNames DEF Resumes, At, Waiting
<1> QED BY <1>1, QuietTyped DEF Resumes, Edge, TypeInv, Typed

LEMMA RefreshTyped ==
  ASSUME TypeInv, NEW s \in SignIns, Refresh(s)
  PROVE  TypeInv'
<1>1. /\ signin' \in [SignIns -> SignIn] /\ signin'[s].pc \notin Waiting /\ Coded(signin'[s])
      /\ \A x \in SignIns : x # s => signin'[x] = signin[x]
  <2>1. CASE Goes(s, "vtop")
    BY <2>1, GoesTo, PhaseNames
  <2>2. CASE Ends(s, "gmail_revoked") \/ Ends(s, "failed")
    BY <2>2, EndsWith DEF Outcomes, Waiting
  <2> QED BY <2>1, <2>2 DEF Refresh
<1>2. signin[s].pc \notin Waiting
  BY DEF Refresh, At, Waiting
<1> QED BY <1>1, <1>2, QuietTyped DEF Refresh, Edge, TypeInv, Typed

LEMMA SignedInTyped ==
  ASSUME TypeInv, NEW s \in SignIns, SignedIn(s)
  PROVE  /\ signin' \in [SignIns -> SignIn] /\ signin'[s].pc \notin Waiting /\ Coded(signin'[s])
         /\ \A x \in SignIns : x # s => signin'[x] = signin[x]
BY EndsWith DEF SignedIn, Outcomes, Waiting

(* What VTOP mails is a mail.                                              *)
LEMMA NewMail ==
  ASSUME TypeInv, Slack <= now, NEW code \in Codes, NEW behind \in 0..Drift
  PROVE  [code |-> code, sentAt |-> now - behind, todo |-> {"sent"}] \in Mail
<1>1. now - behind \in Nat
  BY Times0 DEF TypeInv, Typed
<1> QED BY <1>1 DEF Mail

LEMMA LoginTyped ==
  ASSUME TypeInv, Slack <= now, NEW s \in SignIns, Login(s)
  PROVE  TypeInv'
<1>0. signin[s].pc \notin Waiting
  BY DEF Login, At, Waiting
<1>1. CASE (SignedIn(s) \/ Ends(s, "invalid") \/ Ends(s, "failed")) /\ UNCHANGED <<mails, mailed>>
  <2>1. /\ signin' \in [SignIns -> SignIn] /\ signin'[s].pc \notin Waiting /\ Coded(signin'[s])
        /\ \A x \in SignIns : x # s => signin'[x] = signin[x]
    BY <1>1, SignedInTyped, EndsWith DEF Outcomes, Waiting
  <2> QED BY <1>0, <1>1, <2>1, QuietTyped DEF Login, TypeInv, Typed
<1>2. CASE /\ signin' = [signin EXCEPT ![s].pc = "look", ![s].issued = now, ![s].deadline = now + Wait]
           /\ \E behind \in 0..Drift :
                mails' = mails \cup {[code |-> s, sentAt |-> now - behind, todo |-> {"sent"}]}
           /\ mailed' = mailed \cup {s}
  <2> DEFINE r == [signin[s] EXCEPT !.pc = "look", !.issued = now, !.deadline = now + Wait]
  <2>1. signin' = [signin EXCEPT ![s] = r]
    BY <1>2 DEF TypeInv, Typed, SignIn
  <2>2. now \in Nat /\ now + Wait \in Nat
    BY Times0 DEF TypeInv, Typed
  <2>2a. r \in SignIn /\ r.pc = "look"
    BY <2>2, SignInTyped, PhaseNames DEF SignIn
  <2> HIDE DEF r
  <2>3. /\ signin' \in [SignIns -> SignIn] /\ signin'[s].pc \notin Waiting /\ Coded(signin'[s])
        /\ \A x \in SignIns : x # s => signin'[x] = signin[x]
    BY <2>1, <2>2a, Changes DEF Waiting, Coded
  <2>4. s \in Codes
    BY DEF Codes
  <2>5. mails' \subseteq Mail
    BY <1>2, <2>4, NewMail DEF TypeInv, Typed
  <2>6. mailed' \subseteq Codes
    BY <1>2, <2>4 DEF TypeInv, Typed
  <2> QED BY <1>0, <2>3, <2>5, <2>6, QuietTyped DEF Login, TypeInv, Typed
<1> QED BY <1>1, <1>2 DEF Login

LEMMA LookTyped ==
  ASSUME TypeInv, NEW s \in SignIns, Look(s)
  PROVE  TypeInv'
<1>0. signin[s].pc \notin Waiting
  BY DEF Look, At, Waiting
<1>1. CASE /\ UNCHANGED calls
           /\ Ends(s, "no code") \/ Sleeps(s, now)
  <2>1. /\ signin' \in [SignIns -> SignIn] /\ signin'[s].pc \notin Waiting /\ Coded(signin'[s])
        /\ \A x \in SignIns : x # s => signin'[x] = signin[x]
    <3>1. CASE Ends(s, "no code")
      BY <3>1, EndsWith DEF Outcomes, Waiting
    <3>2. CASE Sleeps(s, now)
      <4>1. now \in Nat
        BY DEF TypeInv, Typed
      <4>2. Slept(s, "poll", now, signin[s].code)
        BY <3>2, <4>1, SleepsSo, PhaseNames DEF Sleeps
      <4> QED BY <4>2, PhaseNames DEF Slept
    <3> QED BY <1>1, <3>1, <3>2
  <2> QED BY <1>0, <1>1, <2>1, QuietTyped DEF Look, TypeInv, Typed
<1>2. CASE /\ signin' = [signin EXCEPT ![s].pc = "await", ![s].by = now + Hang]
           /\ Asks(s, Before(signin[s].issued, Slack), StepOf(Before(signin[s].deadline, now)))
  <2>0. now + Hang \in Nat
    BY Times0 DEF TypeInv, Typed
  <2>1. /\ signin' \in [SignIns -> SignIn] /\ signin'[s].pc = "await"
        /\ \A x \in SignIns : x # s => signin'[x] = signin[x]
    BY <1>2, <2>0, SleepsSo, PhaseNames DEF Slept
  <2> DEFINE since == Before(signin[s].issued, Slack)
             wait == StepOf(Before(signin[s].deadline, now))
             d == [of |-> s, wait |-> wait, since |-> since, until |-> 0, pc |-> "asked",
                   woken |-> FALSE, answer |-> NoCode, cut |-> FALSE]
  <2>2. since \in Nat /\ wait \in 0..Step
    <3>1. now \in Nat /\ signin[s].issued \in Nat /\ signin[s].deadline \in Nat
      BY SignInTyped DEF TypeInv, Typed
    <3>2. since \in Nat /\ Before(signin[s].deadline, now) \in Nat
      BY <3>1, BeforeNat, Times0
    <3> HIDE DEF since
    <3> QED BY <3>2, Times0 DEF StepOf, Least
  <2>3. calls' = calls \cup {d}
    BY <1>2 DEF Asks
  <2> HIDE DEF since, wait
  <2>4. d \in Call /\ d.of = s /\ d.cut = FALSE
    BY <2>2, NewCall
  <2> HIDE DEF d
  <2>5. Typed'
    BY <2>1, <2>3, <2>4 DEF TypeInv, Typed, Look, Student
  <2>6. OneCall'
    <3>1. signin'[s].pc \in Waiting /\ \A x \in SignIns : x # s => signin'[x].pc = signin[x].pc
      BY <2>1 DEF Waiting
    <3> QED BY <1>0, <2>3, <2>4, <3>1, CallBegins DEF TypeInv
  <2>7. \A x \in SignIns : Coded(signin'[x])
    BY <2>1 DEF TypeInv, Coded
  <2> QED BY <2>5, <2>6, <2>7 DEF TypeInv
<1> QED BY <1>1, <1>2 DEF Look

LEMMA InboxTyped ==
  ASSUME TypeInv, NEW i \in DOMAIN inbox
  PROVE  /\ inbox[i] \in [code: Codes, at: Nat] /\ inbox[i].code \in Codes /\ inbox[i].at \in Nat
         /\ i \in 1..Len(inbox) /\ Len(inbox) \in Nat
<1>1. inbox \in Seq([code: Codes, at: Nat])
  BY DEF TypeInv, Typed
<1>2. DOMAIN inbox = 1..Len(inbox) /\ Len(inbox) \in Nat /\ \A j \in 1..Len(inbox) : inbox[j] \in [code: Codes, at: Nat]
  BY <1>1, LenProperties, ElementOfSeq
<1> QED BY <1>2

LEMMA ListsTyped ==
  ASSUME TypeInv, NEW s \in SignIns, Lists(s)
  PROVE  TypeInv'
<1>0. signin[s].pc \notin Waiting
  BY DEF Lists, At, Waiting
<1>1. /\ signin' \in [SignIns -> SignIn] /\ signin'[s].pc \notin Waiting /\ Coded(signin'[s])
      /\ \A x \in SignIns : x # s => signin'[x] = signin[x]
  BY ListsSo DEF Slept, Waiting
<1> QED BY <1>0, <1>1, QuietTyped DEF Lists, TypeInv, Typed, Edge

(* Three ways a poll of Gmail ends.                                        *)
LEMMA ReadsSo ==
  ASSUME TypeInv, NEW s \in SignIns, Reads(s)
  PROVE  \/ signin[s].code \in Codes /\ Slept(s, "submit", signin[s].by, signin[s].code)
              /\ Goes(s, "submit") /\ Coded(signin'[s])
         \/ signin[s].code = NoCode /\ now + Step > signin[s].deadline /\ Ends(s, "no code")
         \/ /\ signin[s].code = NoCode /\ now + Step <= signin[s].deadline
            /\ Slept(s, "poll", now + Step, NoCode)
<1>0. /\ now \in Nat /\ signin[s].deadline \in Nat /\ signin[s].by \in Nat /\ now + Step \in Nat
      /\ signin[s].code \in Codes \cup {NoCode}
  BY SignInTyped, Times0 DEF TypeInv, Typed
<1>1. CASE signin[s].code # NoCode
  <2>1. Goes(s, "submit") /\ signin[s].code \in Codes
    BY <1>0, <1>1 DEF Reads
  <2>2. signin' = [signin EXCEPT ![s].pc = "submit", ![s].by = signin[s].by]
    BY <2>1 DEF Goes, TypeInv, Typed, SignIn
  <2>3. Slept(s, "submit", signin[s].by, signin[s].code)
    BY <1>0, <2>2, SleepsSo, PhaseNames
  <2> QED BY <2>1, <2>3 DEF Slept, Coded
<1>2. CASE signin[s].code = NoCode /\ now + Step > signin[s].deadline
  BY <1>2 DEF Reads
<1>3. CASE signin[s].code = NoCode /\ ~(now + Step > signin[s].deadline)
  <2>1. signin' = [signin EXCEPT ![s].pc = "poll", ![s].by = now + Step]
    BY <1>3 DEF Reads, Sleeps
  <2>2. Slept(s, "poll", now + Step, signin[s].code)
    BY <1>0, <2>1, SleepsSo, PhaseNames
  <2>3. now + Step <= signin[s].deadline
    BY <1>0, <1>3, Times0
  <2> QED BY <1>3, <2>2, <2>3
<1> QED BY <1>1, <1>2, <1>3

LEMMA ReadsTyped ==
  ASSUME TypeInv, NEW s \in SignIns, Reads(s)
  PROVE  TypeInv'
<1>0. signin[s].pc \notin Waiting
  BY DEF Reads, At, Waiting
<1>1. /\ signin' \in [SignIns -> SignIn] /\ signin'[s].pc \notin Waiting /\ Coded(signin'[s])
      /\ \A x \in SignIns : x # s => signin'[x] = signin[x]
  <2>1. CASE Ends(s, "no code")
    BY <2>1, EndsWith DEF Outcomes, Waiting
  <2> QED BY <2>1, ReadsSo DEF Slept, Waiting
<1> QED BY <1>0, <1>1, QuietTyped DEF Reads, TypeInv, Typed, Edge

LEMMA PollFailsTyped ==
  ASSUME TypeInv, NEW s \in SignIns, PollFails(s)
  PROVE  TypeInv'
<1>1. /\ signin' \in [SignIns -> SignIn] /\ signin'[s].pc \notin Waiting /\ Coded(signin'[s])
      /\ \A x \in SignIns : x # s => signin'[x] = signin[x]
  BY EndsWith DEF PollFails, Outcomes, Waiting
<1>2. signin[s].pc \notin Waiting /\ faults' \in 0..MaxFaults /\ hurt' \subseteq SignIns
  BY FaultTyped DEF PollFails, At, Waiting, TypeInv, Typed
<1> QED BY <1>1, <1>2, QuietTyped DEF PollFails, TypeInv, Typed, Edge

(* The inbox without one of its mails.                                     *)
LEMMA Without ==
  ASSUME TypeInv, NEW i \in DOMAIN inbox
  PROVE  /\ RemoveAt(inbox, i) \in Seq([code: Codes, at: Nat])
         /\ Len(RemoveAt(inbox, i)) = Len(inbox) - 1
         /\ \A j \in DOMAIN RemoveAt(inbox, i) :
              RemoveAt(inbox, i)[j] = inbox[IF j < i THEN j ELSE j + 1]
<1> DEFINE E == [code: Codes, at: Nat]
           a == SubSeq(inbox, 1, i - 1)
           b == SubSeq(inbox, i + 1, Len(inbox))
<1>0. inbox \in Seq(E) /\ i \in 1..Len(inbox) /\ Len(inbox) \in Nat
  BY DEF TypeInv, Typed
<1>0a. \A j \in 1..Len(inbox) : inbox[j] \in E
  BY <1>0, ElementOfSeq
<1>1. a \in Seq(E) /\ Len(a) = i - 1 /\ \A j \in 1..i - 1 : a[j] = inbox[j]
  <2>1. 1 \in Int /\ i - 1 \in Int /\ \A j \in 1..i - 1 : inbox[j] \in E
    BY <1>0, <1>0a
  <2>2. /\ a \in Seq(E) /\ Len(a) = IF 1 <= i - 1 THEN (i - 1) - 1 + 1 ELSE 0
        /\ \A j \in 1..(i - 1) - 1 + 1 : a[j] = inbox[1 + j - 1]
    BY <2>1, SubSeqProperties
  <2> HIDE DEF a, E
  <2> QED BY <1>0, <2>2
<1>2. /\ b \in Seq(E) /\ Len(b) = Len(inbox) - i
      /\ \A j \in 1..Len(inbox) - i : b[j] = inbox[i + j]
  <2>1. i + 1 \in Int /\ Len(inbox) \in Int /\ \A j \in i + 1..Len(inbox) : inbox[j] \in E
    BY <1>0, <1>0a
  <2>2. /\ b \in Seq(E)
        /\ Len(b) = IF i + 1 <= Len(inbox) THEN Len(inbox) - (i + 1) + 1 ELSE 0
        /\ \A j \in 1..Len(inbox) - (i + 1) + 1 : b[j] = inbox[(i + 1) + j - 1]
    BY <2>1, SubSeqProperties
  <2> HIDE DEF b, E
  <2> QED BY <1>0, <2>2
<1>3. RemoveAt(inbox, i) = a \o b
  BY DEF RemoveAt
<1> HIDE DEF a, b, E
<1>4. a \o b \in Seq(E) /\ Len(a \o b) = Len(inbox) - 1
  BY <1>0, <1>1, <1>2
<1>5. ASSUME NEW j \in DOMAIN (a \o b)
      PROVE  (a \o b)[j] = inbox[IF j < i THEN j ELSE j + 1]
  <2>0. j \in 1..Len(inbox) - 1
    BY <1>0, <1>4
  <2>1. CASE j < i
    BY <1>0, <1>1, <1>2, <2>0, <2>1
  <2>2. CASE ~(j < i)
    <3>1. (a \o b)[j] = b[j - (i - 1)] /\ j - (i - 1) \in 1..Len(inbox) - i
      BY <1>0, <1>1, <1>2, <2>0, <2>2
    <3>2. b[j - (i - 1)] = inbox[i + (j - (i - 1))] /\ i + (j - (i - 1)) = j + 1
      BY <1>0, <1>2, <2>0, <3>1
    <3> QED BY <2>2, <3>1, <3>2
  <2> QED BY <2>1, <2>2
<1> QED BY <1>3, <1>4, <1>5 DEF E

LEMMA SubmitTyped ==
  ASSUME TypeInv, NEW s \in SignIns, Submit(s)
  PROVE  TypeInv'
<1>0. signin[s].pc \notin Waiting
  BY DEF Submit, At, Waiting
<1>1. inbox' \in Seq([code: Codes, at: Nat])
  <2>1. CASE UNCHANGED inbox
    BY <2>1 DEF TypeInv, Typed
  <2>2. ASSUME NEW i \in DOMAIN inbox, inbox' = RemoveAt(inbox, i)
        PROVE  inbox' \in Seq([code: Codes, at: Nat])
    BY <2>2, Without
  <2> QED BY <2>1, <2>2 DEF Submit
<1>2. /\ signin' \in [SignIns -> SignIn] /\ signin'[s].pc \notin Waiting /\ Coded(signin'[s])
      /\ \A x \in SignIns : x # s => signin'[x] = signin[x]
  <2>1. CASE SignedIn(s)
    BY <2>1, SignedInTyped
  <2>2. CASE Ends(s, "failed")
    BY <2>2, EndsWith DEF Outcomes, Waiting
  <2>3. CASE signin' = [signin EXCEPT ![s].pc = "look", ![s].tried = @ \cup {signin[s].code},
                          ![s].code = NoCode, ![s].late = now >= signin[s].deadline]
    <3> DEFINE late == now >= signin[s].deadline
               r == [signin[s] EXCEPT !.pc = "look", !.tried = @ \cup {signin[s].code},
                                      !.code = NoCode, !.late = late]
    <3>1. late \in BOOLEAN
      OBVIOUS
    <3>2. signin' = [signin EXCEPT ![s] = r]
      BY <2>3 DEF TypeInv, Typed, SignIn
    <3> HIDE DEF late
    <3>3. signin[s].code \in Codes
      BY DEF Submit, At, TypeInv, Coded
    <3>4. r \in SignIn /\ r.pc = "look"
      BY <3>1, <3>3, SignInTyped, PhaseNames DEF SignIn
    <3> HIDE DEF r
    <3> QED BY <3>2, <3>4, Changes DEF Waiting, Coded
  <2> QED BY <2>1, <2>2, <2>3 DEF Submit
<1> QED BY <1>0, <1>1, <1>2, QuietTyped DEF Submit, TypeInv, Typed

LEMMA ReportTyped ==
  ASSUME TypeInv, NEW s \in SignIns, Report(s)
  PROVE  TypeInv'
<1>0. signin[s].pc \notin Waiting
  BY DEF Report, At, Waiting
<1>1. CASE signin' = [signin EXCEPT ![s] = [Idle EXCEPT !.pc = "over"]]
  <2> DEFINE r == [Idle EXCEPT !.pc = "over"]
  <2>1. r \in SignIn /\ r.pc = "over"
    <3>1. 0 \in 0..2 /\ "none" \in Outcomes /\ {} \subseteq Codes /\ 0 \in Nat
      BY DEF Outcomes
    <3> QED BY <3>1, PhaseNames DEF Idle, SignIn
  <2> HIDE DEF r
  <2>2. /\ signin' \in [SignIns -> SignIn] /\ signin'[s].pc \notin Waiting /\ Coded(signin'[s])
        /\ \A x \in SignIns : x # s => signin'[x] = signin[x]
    BY <1>1, <2>1, Changes DEF r, Waiting, Coded
  <2> QED BY <1>0, <2>2, QuietTyped DEF Report, Edge, TypeInv, Typed
<1>2. CASE signin[s].reports < 2 /\ signin' = [signin EXCEPT ![s].reports = @ + 1]
  <2> DEFINE r == [signin[s] EXCEPT !.reports = @ + 1]
  <2>0. signin[s].reports + 1 \in 0..2
    BY <1>2, SignInTyped
  <2>1. signin' = [signin EXCEPT ![s] = r]
    BY <1>2 DEF TypeInv, Typed, SignIn
  <2>1a. r \in SignIn /\ r.pc = "report"
    BY <2>0, SignInTyped DEF SignIn, Report, At
  <2> HIDE DEF r
  <2>2. /\ signin' \in [SignIns -> SignIn] /\ signin'[s].pc \notin Waiting /\ Coded(signin'[s])
        /\ \A x \in SignIns : x # s => signin'[x] = signin[x]
    BY <2>1, <2>1a, Changes DEF Waiting, Coded
  <2> QED BY <1>0, <2>2, QuietTyped DEF Report, Edge, TypeInv, Typed
<1> QED BY <1>1, <1>2 DEF Report

(***************************************************************************)
(* The Mailbox's steps.                                                    *)
(***************************************************************************)
LEMMA WaiterTyped ==
  ASSUME TypeInv, NEW s \in SignIns
  PROVE  /\ waiters[s] \in {NoWaiter} \cup Waiter
         /\ waiters[s] # NoWaiter =>
              /\ waiters[s].since \in Nat /\ waiters[s].expires \in Nat
              /\ waiters[s].results \in Seq(Codes)
BY DEF TypeInv, Typed, Waiter

(* What a call becomes when it is answered.                                *)
LEMMA AnswersTyped ==
  ASSUME TypeInv, NEW c \in calls, NEW answer \in Codes \cup {NoCode, NoAddress},
         Answers(c, answer), UNCHANGED signin
  PROVE  calls' \subseteq Call /\ OneCall'
<1> DEFINE d == [c EXCEPT !.pc = "answered", !.answer = answer]
           D == IF c.cut THEN {} ELSE {d}
<1>1. c \in Call
  BY CallTyped
<1>2. d \in Call /\ d.of = c.of /\ d.cut = c.cut
  BY <1>1 DEF Call
<1>3. calls' = (calls \ {c}) \cup D
  BY DEF Answers
<1> HIDE DEF d
<1>4. D = {d} \/ (D = {} /\ c.cut)
  OBVIOUS
<1>5. calls' \subseteq Call
  BY <1>2, <1>3, <1>4 DEF TypeInv, Typed
<1> HIDE DEF D
<1>6. OneCall'
  BY <1>2, <1>3, <1>4, CallGoesOn DEF TypeInv
<1> QED BY <1>5, <1>6

LEMMA ParksTyped ==
  ASSUME TypeInv, NEW c \in calls, NEW until \in Nat, UNCHANGED signin,
         calls' = (calls \ {c}) \cup {[c EXCEPT !.pc = "parked", !.until = until, !.woken = FALSE]}
  PROVE  calls' \subseteq Call /\ OneCall'
<1> DEFINE d == [c EXCEPT !.pc = "parked", !.until = until, !.woken = FALSE]
           D == {d}
<1>1. c \in Call
  BY CallTyped
<1>2. d \in Call /\ d.of = c.of /\ d.cut = c.cut
  BY <1>1 DEF Call
<1> HIDE DEF d
<1>3. calls' \subseteq Call
  BY <1>2 DEF TypeInv, Typed, d
<1>4. calls' = (calls \ {c}) \cup D /\ D = {d}
  BY DEF d
<1> HIDE DEF D
<1>5. OneCall'
  BY <1>2, <1>4, CallGoesOn DEF TypeInv
<1> QED BY <1>3, <1>5

LEMMA LooksAtTyped ==
  ASSUME TypeInv, NEW c \in calls, NEW w \in {NoWaiter} \cup Waiter, NEW until \in Nat,
         w = waiters[c.of] \/ w.results = << >>,
         LooksAt(c, w, until), UNCHANGED signin
  PROVE  /\ waiters' \in [SignIns -> {NoWaiter} \cup Waiter]
         /\ calls' \subseteq Call /\ OneCall'
<1>0. c.of \in SignIns
  BY CallTyped
<1>1. CASE w # NoWaiter /\ w.results # << >>
  <2>1. waiters' = [waiters EXCEPT ![c.of].results = Tail(w.results)] /\ Answers(c, Head(w.results))
    BY <1>1 DEF LooksAt
  <2>2. w.results \in Seq(Codes)
    BY <1>1 DEF Waiter
  <2>3. Head(w.results) \in Codes /\ Tail(w.results) \in Seq(Codes)
    BY <1>1, <2>2, HeadTailProperties
  <2>4. calls' \subseteq Call /\ OneCall'
    BY <2>1, <2>3, AnswersTyped
  <2>5. waiters' \in [SignIns -> {NoWaiter} \cup Waiter]
    <3>1. waiters[c.of] \in Waiter
      BY <1>1
    <3>2. [waiters[c.of] EXCEPT !.results = Tail(w.results)] \in Waiter
      BY <2>3, <3>1 DEF Waiter
    <3> QED BY <1>0, <2>1, <3>2 DEF TypeInv, Typed
  <2> QED BY <2>4, <2>5
<1>2. CASE ~(w # NoWaiter /\ w.results # << >>)
  <2>1. waiters' = [waiters EXCEPT ![c.of] = w]
    BY <1>2 DEF LooksAt
  <2>2. waiters' \in [SignIns -> {NoWaiter} \cup Waiter]
    BY <1>0, <2>1 DEF TypeInv, Typed
  <2>3. calls' \subseteq Call /\ OneCall'
    <3>1. CASE Over(until)
      BY <1>2, <3>1, AnswersTyped DEF LooksAt
    <3>2. CASE ~Over(until)
      BY <1>2, <3>2, ParksTyped DEF LooksAt
    <3> QED BY <3>1, <3>2
  <2> QED BY <2>2, <2>3
<1> QED BY <1>1, <1>2

(* awaitCode's waiter, made if there is none.                              *)
WaiterOf(c) ==
  IF waiters[c.of] # NoWaiter THEN waiters[c.of]
  ELSE [since |-> c.since, expires |-> now + Ttl, results |-> << >>]

LEMMA WaiterOfTyped ==
  ASSUME TypeInv, NEW c \in calls
  PROVE  WaiterOf(c) \in Waiter /\ (WaiterOf(c) = waiters[c.of] \/ WaiterOf(c).results = << >>)
<1>1. c.of \in SignIns /\ c.since \in Nat /\ now + Ttl \in Nat
  BY CallTyped, Times0 DEF TypeInv, Typed
<1>2. << >> \in Seq(Codes)
  BY EmptySeq
<1> QED BY <1>1, <1>2, WaiterTyped DEF WaiterOf, Waiter

LEMMA AwaitCodeTyped ==
  ASSUME TypeInv, NEW c \in calls, AwaitCode(c)
  PROVE  TypeInv'
<1>1. CASE address
  <2>1. LooksAt(c, WaiterOf(c), now + c.wait)
    BY <1>1 DEF AwaitCode, WaiterOf
  <2>2. now + c.wait \in Nat
    BY CallTyped DEF TypeInv, Typed
  <2>3. UNCHANGED signin
    BY DEF AwaitCode, Engine
  <2>4. waiters' \in [SignIns -> {NoWaiter} \cup Waiter] /\ calls' \subseteq Call /\ OneCall'
    BY <2>1, <2>2, <2>3, WaiterOfTyped, LooksAtTyped
  <2> QED BY <2>4 DEF TypeInv, Typed, AwaitCode, Student, Engine
<1>2. CASE ~address
  <2>1. Answers(c, NoAddress) /\ UNCHANGED <<waiters, signin>>
    BY <1>2 DEF AwaitCode, Engine
  <2>2. calls' \subseteq Call /\ OneCall'
    BY <2>1, AnswersTyped
  <2> QED BY <2>1, <2>2 DEF TypeInv, Typed, AwaitCode, Student, Engine
<1> QED BY <1>1, <1>2

LEMMA AwakeTyped ==
  ASSUME TypeInv, NEW c \in calls, Awake(c)
  PROVE  TypeInv'
<1>1. LooksAt(c, waiters[c.of], c.until) /\ UNCHANGED signin
  BY DEF Awake, Engine
<1>2. waiters[c.of] \in {NoWaiter} \cup Waiter /\ c.until \in Nat
  BY CallTyped, WaiterTyped
<1>3. waiters' \in [SignIns -> {NoWaiter} \cup Waiter] /\ calls' \subseteq Call /\ OneCall'
  BY <1>1, <1>2, LooksAtTyped
<1> QED BY <1>3 DEF TypeInv, Typed, Awake, Student, Engine

LEMMA KeptTyped ==
  ASSUME TypeInv
  PROVE  Kept \in [SignIns -> {NoWaiter} \cup Waiter]
BY DEF TypeInv, Typed, Kept

(* Steps that leave sign-ins and calls alone.                              *)
LEMMA EdgeTyped ==
  ASSUME TypeInv, Typed', UNCHANGED <<signin, calls>>
  PROVE  TypeInv'
<1>1. OneCall'
  BY CallsStay DEF TypeInv
<1> QED BY <1>1 DEF TypeInv

LEMMA ArrivesTyped ==
  ASSUME TypeInv, NEW m \in mails, Arrives(m)
  PROVE  TypeInv'
<1>0. m \in Mail /\ m.code \in Codes
  BY DEF TypeInv, Typed, Mail
<1>1. faults' \in 0..MaxFaults
  BY FaultTyped DEF Arrives, TypeInv, Typed
<1>2. mails' \subseteq Mail
  <2>1. ASSUME NEW todo \in SUBSET SignIns PROVE [m EXCEPT !.todo = todo] \in Mail
    BY <1>0 DEF Mail
  <2> DEFINE todo == IF address THEN {s \in SignIns : Wants(Kept[s], m.sentAt)} ELSE {}
  <2>2. [m EXCEPT !.todo = todo] \in Mail
    BY <2>1
  <2>3. mails' \subseteq mails \cup {[m EXCEPT !.todo = todo]}
    BY DEF Arrives
  <2> QED BY <2>2, <2>3 DEF TypeInv, Typed
<1>3. inbox' \in Seq([code: Codes, at: Nat])
  <2>1. [code |-> m.code, at |-> now] \in [code: Codes, at: Nat]
    BY <1>0 DEF TypeInv, Typed
  <2>2. inbox \in Seq([code: Codes, at: Nat])
    BY DEF TypeInv, Typed
  <2>3. Append(inbox, [code |-> m.code, at |-> now]) \in Seq([code: Codes, at: Nat])
    BY <2>1, <2>2, AppendProperties
  <2> QED BY <2>2, <2>3 DEF Arrives
<1>4. waiters' \in [SignIns -> {NoWaiter} \cup Waiter]
  BY KeptTyped DEF Arrives, TypeInv, Typed
<1>5. due' \subseteq SignIns
  BY DEF Arrives, TypeInv, Typed
<1>6. Typed' /\ UNCHANGED <<signin, calls>>
  BY <1>1, <1>2, <1>3, <1>4, <1>5 DEF Arrives, TypeInv, Typed, Student
<1> QED BY <1>6, EdgeTyped

LEMMA HandTyped ==
  ASSUME TypeInv, NEW m \in mails, Hand(m)
  PROVE  TypeInv'
<1>1. PICK s \in m.todo \cap SignIns :
        /\ Handed(m, s) /\ Stores(m, s)
        /\ calls' = IF waiters[s] = NoWaiter THEN calls
                    ELSE {IF c.of = s /\ c.pc = "parked" THEN [c EXCEPT !.woken = TRUE] ELSE c : c \in calls}
        /\ UNCHANGED <<now, faults, Student, inbox, mailed, Engine>>
  BY DEF Hand
<1>0. m \in Mail /\ m.code \in Codes /\ s \in SignIns
  BY DEF TypeInv, Typed, Mail
<1>2. mails' \subseteq Mail
  <2>1. CASE m.todo = {s}
    BY <1>1, <2>1 DEF Handed, TypeInv, Typed
  <2>2. CASE m.todo # {s}
    <3>1. m.todo \ {s} \in SUBSET SignIns
      BY <1>0, ChallengesAssumption DEF Mail
    <3>2. [m EXCEPT !.todo = @ \ {s}] \in Mail
      BY <1>0, <3>1 DEF Mail
    <3> QED BY <1>1, <2>2, <3>2 DEF Handed, TypeInv, Typed
  <2> QED BY <2>1, <2>2
<1>3. waiters' \in [SignIns -> {NoWaiter} \cup Waiter]
  <2>1. CASE waiters[s] = NoWaiter
    BY <1>1, <2>1 DEF Stores, TypeInv, Typed
  <2>2. CASE waiters[s] # NoWaiter
    <3>1. waiters[s] \in Waiter /\ waiters[s].results \in Seq(Codes)
      BY <2>2, WaiterTyped
    <3>2. Append(waiters[s].results, m.code) \in Seq(Codes)
      BY <1>0, <3>1, AppendProperties
    <3>3. [waiters[s] EXCEPT !.results = Append(waiters[s].results, m.code)] \in Waiter
      BY <3>1, <3>2 DEF Waiter
    <3> QED BY <1>0, <1>1, <2>2, <3>3 DEF Stores, TypeInv, Typed
  <2> QED BY <2>1, <2>2
<1> DEFINE w(c) == IF c.of = s /\ c.pc = "parked" THEN [c EXCEPT !.woken = TRUE] ELSE c
<1>4. \A c \in calls : w(c) \in Call /\ w(c).of = c.of /\ w(c).cut = c.cut
  <2> SUFFICES ASSUME NEW c \in calls PROVE w(c) \in Call /\ w(c).of = c.of /\ w(c).cut = c.cut
    OBVIOUS
  <2>1. c \in Call
    BY CallTyped
  <2> QED BY <2>1 DEF Call
<1>5. calls' = calls \/ calls' = {w(c) : c \in calls}
  BY <1>1
<1> HIDE DEF w
<1>6. calls' \subseteq Call
  BY <1>4, <1>5 DEF TypeInv, Typed
<1>7. Typed' /\ UNCHANGED signin
  BY <1>1, <1>2, <1>3, <1>6 DEF TypeInv, Typed, Student, Engine
<1>8. OneCall'
  <2>1. CASE calls' = calls
    BY <1>7, <2>1, CallsStay DEF TypeInv
  <2>2. CASE calls' = {w(c) : c \in calls}
    <3> SUFFICES ASSUME NEW x \in SignIns
                 PROVE  IF signin[x].pc \in Waiting THEN \E y \in calls' : Live(x)' = {y} ELSE Live(x)' = {}
      BY <1>7 DEF OneCall
    <3>1. Live(x)' = {w(c) : c \in Live(x)}
      BY <1>4, <2>2 DEF Live
    <3>2. CASE signin[x].pc \in Waiting
      <4>1. PICK c \in calls : Live(x) = {c}
        BY <3>2 DEF TypeInv, OneCall
      <4>2. Live(x)' = {w(c)} /\ w(c) \in calls'
        BY <2>2, <3>1, <4>1
      <4> QED BY <3>2, <4>2
    <3>3. CASE signin[x].pc \notin Waiting
      BY <3>1, <3>3 DEF TypeInv, OneCall
    <3> QED BY <3>2, <3>3
  <2> QED BY <1>5, <2>1, <2>2
<1>9. \A x \in SignIns : Coded(signin'[x])
  BY <1>7 DEF TypeInv
<1> QED BY <1>7, <1>8, <1>9 DEF TypeInv

LEMMA HandFailsTyped ==
  ASSUME TypeInv, NEW m \in mails, HandFails(m)
  PROVE  TypeInv'
<1>1. m.todo \subseteq SignIns
  BY DEF HandFails, TypeInv, Typed, Mail
<1>2. Typed' /\ UNCHANGED <<signin, calls>>
  BY <1>1, FaultTyped DEF HandFails, TypeInv, Typed, Student
<1> QED BY <1>2, EdgeTyped

LEMMA AlarmTyped ==
  ASSUME TypeInv, Alarm
  PROVE  TypeInv'
<1>1. Typed' /\ UNCHANGED <<signin, calls>>
  BY KeptTyped DEF Alarm, TypeInv, Typed, Student
<1> QED BY <1>1, EdgeTyped

LEMMA ForeignTyped ==
  ASSUME TypeInv, Slack <= now, NEW f \in Foreign, ForeignSignIn(f)
  PROVE  TypeInv'
<1>1. f \in Codes
  BY DEF Codes
<1>2. mails' \subseteq Mail /\ mailed' \subseteq Codes
  BY <1>1, NewMail DEF ForeignSignIn, TypeInv, Typed
<1>3. Typed' /\ UNCHANGED <<signin, calls>>
  BY <1>2 DEF ForeignSignIn, TypeInv, Typed, Student, Engine
<1> QED BY <1>3, EdgeTyped

LEMMA DeleteAddressTyped ==
  ASSUME TypeInv, DeleteAddress
  PROVE  TypeInv'
<1>1. Typed' /\ UNCHANGED <<signin, calls>>
  BY FaultTyped DEF DeleteAddress, TypeInv, Typed
<1> QED BY <1>1, EdgeTyped

LEMMA TickTyped ==
  ASSUME TypeInv, Tick
  PROVE  TypeInv'
<1>1. Typed' /\ UNCHANGED <<signin, calls>>
  BY DEF Tick, TypeInv, Typed, Student, Edge, Engine
<1> QED BY <1>1, EdgeTyped

LEMMA StutterTyped ==
  ASSUME TypeInv, UNCHANGED vars
  PROVE  TypeInv'
<1>1. Typed' /\ UNCHANGED <<signin, calls>>
  BY DEF vars, TypeInv, Typed
<1> QED BY <1>1, EdgeTyped

LEMMA NextTyped ==
  ASSUME TypeInv, Slack <= now, [Next]_vars
  PROVE  TypeInv'
<1>1. ASSUME NEW s \in SignIns, SignInStep(s) PROVE TypeInv'
  BY <1>1, BeginTyped, HearsTyped, HangsTyped, CutTyped, ResumesTyped, RefreshTyped, LoginTyped, LookTyped,
     ListsTyped, ReadsTyped, PollFailsTyped, SubmitTyped, ReportTyped
     DEF SignInStep
<1>2. CASE EdgeStep
  BY <1>2, AwaitCodeTyped, AwakeTyped, ArrivesTyped, HandTyped, HandFailsTyped, AlarmTyped
     DEF EdgeStep
<1> QED BY <1>1, <1>2, ForeignTyped, DeleteAddressTyped, TickTyped, StutterTyped DEF Next

(***************************************************************************)
(* How long sign-ins and their calls wait.                                 *)
(***************************************************************************)
LEMMA InitPaced == Init => Paced
<1> SUFFICES ASSUME Init PROVE Paced
  OBVIOUS
<1>1. \A s \in SignIns : Times(s)
  BY Times0 DEF Init, Times, Idle, Seeking
<1> QED BY <1>1, Times0 DEF Init, Paced

LEMMA TimesStay ==
  ASSUME NEW s \in SignIns, Times(s), signin'[s] = signin[s], now' = now, address' => address, hurt \subseteq hurt'
  PROVE  Times(s)'
BY DEF Times

LEMMA CallTimesStay ==
  ASSUME NEW c, CallTimes(c), signin'[c.of] = signin[c.of], now' = now, address' => address, hurt \subseteq hurt'
  PROVE  CallTimes(c)'
BY DEF CallTimes

(* A step of one sign-in, and what its calls are then.                     *)
LEMMA OnePaced ==
  ASSUME TimeInv, NEW s \in SignIns, now' = now, address' = address, hurt \subseteq hurt', Times(s)',
         \A x \in SignIns : x # s => signin'[x] = signin[x],
         \A c \in calls' : (c.of = s /\ CallTimes(c)') \/ (c.of # s /\ c \in calls)
  PROVE  Paced'
<1>1. \A x \in SignIns : Times(x)'
  BY TimesStay DEF TimeInv, Paced
<1>2. ASSUME NEW c \in calls' PROVE CallTimes(c)'
  <2>1. CASE c.of = s
    BY <2>1
  <2>2. CASE c.of # s
    <3>1. c \in calls /\ CallTimes(c) /\ c.of \in SignIns
      BY <2>2, CallTyped DEF TimeInv, Paced
    <3> QED BY <2>2, <3>1, CallTimesStay
  <2> QED BY <2>1, <2>2
<1> QED BY <1>1, <1>2 DEF TimeInv, Paced

(* A step after which a sign-in waits for no call of its own.              *)
LEMMA QuietPaced ==
  ASSUME TimeInv, NEW s \in SignIns, now' = now, address' = address, hurt \subseteq hurt', Times(s)',
         \A x \in SignIns : x # s => signin'[x] = signin[x],
         calls' \subseteq calls,
         signin'[s].pc \notin {"idle", "register", "await"},
         signin'[s].pc \in Seeking =>
           \/ signin'[s].issued = now
           \/ signin[s].pc \in Seeking /\ signin'[s].issued = signin[s].issued
  PROVE  Paced'
<1>1. ASSUME NEW c \in calls', c.of = s PROVE CallTimes(c)'
  <2>1. CallTimes(c)
    BY <1>1 DEF TimeInv, Paced
  <2> QED BY <1>1, <2>1 DEF CallTimes
<1> QED BY <1>1, OnePaced

LEMMA NowTyped ==
  ASSUME TimeInv
  PROVE  now \in Nat /\ Slack <= now /\ address \in BOOLEAN /\ TypeInv
BY DEF TimeInv, TypeInv, Typed, Paced

LEMMA GoesPaced ==
  ASSUME TimeInv, NEW s \in SignIns, NEW pc \in {"vtop", "look"}, Goes(s, pc),
         now' = now, address' = address, hurt \subseteq hurt', calls' \subseteq calls,
         pc # "vtop" => signin[s].pc \in Seeking,
         signin[s].pc # "report"
  PROVE  Paced'
<1>1. /\ signin'[s] = [signin[s] EXCEPT !.pc = pc] /\ signin'[s].pc = pc
      /\ \A x \in SignIns : x # s => signin'[x] = signin[x]
  BY GoesTo, PhaseNames DEF TimeInv
<1>2. /\ signin'[s].gmail = signin[s].gmail /\ signin'[s].began = signin[s].began
      /\ signin'[s].issued = signin[s].issued /\ signin'[s].deadline = signin[s].deadline
      /\ signin'[s].outcome = signin[s].outcome
  BY <1>1, SignInTyped DEF SignIn, TimeInv
<1>3. Times(s)
  BY DEF TimeInv, Paced
<1>4. Times(s)'
  BY <1>1, <1>2, <1>3 DEF Times, Seeking
<1>5. signin'[s].pc \notin {"idle", "register", "await"} /\ (signin'[s].pc \in Seeking => pc # "vtop")
  BY <1>1 DEF Seeking
<1> QED BY <1>1, <1>2, <1>4, <1>5, QuietPaced

LEMMA EndsPaced ==
  ASSUME TimeInv, NEW s \in SignIns, NEW outcome \in Outcomes, Ends(s, outcome),
         now' = now, address' = address, hurt \subseteq hurt', calls' \subseteq calls,
         outcome = "forwarding_required" => ~address
  PROVE  Paced'
<1>1. /\ signin'[s] = [signin[s] EXCEPT !.pc = "report", !.outcome = outcome]
      /\ signin'[s].pc = "report" /\ signin'[s].outcome = outcome
      /\ \A x \in SignIns : x # s => signin'[x] = signin[x]
  BY EndsWith DEF TimeInv
<1>2. signin'[s].gmail = signin[s].gmail /\ signin'[s].began = signin[s].began
  BY <1>1, SignInTyped DEF SignIn, TimeInv
<1>3. Times(s)
  BY DEF TimeInv, Paced
<1>4. Times(s)'
  BY <1>1, <1>2, <1>3 DEF Times, Seeking
<1>5. signin'[s].pc \notin {"idle", "register", "await"} /\ signin'[s].pc \notin Seeking
  BY <1>1 DEF Seeking
<1> QED BY <1>1, <1>4, <1>5, QuietPaced

LEMMA BeginPaced ==
  ASSUME TimeInv, NEW s \in SignIns, Begin(s)
  PROVE  Paced'
<1>0. now \in Nat /\ Slack <= now /\ TypeInv /\ now' = now /\ address' = address /\ hurt \subseteq hurt'
  BY NowTyped DEF Begin, Student
<1>1. CASE Ends(s, "vault_unusable") /\ UNCHANGED calls
  BY <1>0, <1>1, EndsPaced DEF Outcomes
<1>2. CASE signin' = [signin EXCEPT ![s].pc = "register", ![s].began = now, ![s].by = now + Hang]
           /\ Asks(s, Before(now, Slack), 0)
  <2> DEFINE r == [signin[s] EXCEPT !.pc = "register", !.began = now, !.by = now + Hang]
  <2>0. now + Hang \in Nat
    BY <1>0, Times0
  <2>1. signin' = [signin EXCEPT ![s] = r] /\ r \in SignIn /\ r.pc = "register" /\ r.began = now
        /\ r.outcome = signin[s].outcome /\ r.gmail = signin[s].gmail
    BY <1>0, <1>2, <2>0, SignInTyped DEF TypeInv, Typed, SignIn, Phases, Waiting
  <2> HIDE DEF r
  <2>2. signin'[s] = r /\ \A x \in SignIns : x # s => signin'[x] = signin[x]
    BY <1>0, <2>1, Changes
  <2>3. Times(s) /\ signin[s].pc = "idle"
    BY DEF TimeInv, Paced, Begin, At
  <2>4. Times(s)'
    BY <1>0, <2>1, <2>2, <2>3 DEF Times, Seeking
  <2> DEFINE since == Before(now, Slack)
  <2>6. since \in Nat /\ since + Slack = now
    BY <1>0, BeforeNat, Times0
  <2>5. PICK d : /\ calls' = calls \cup {d}
                 /\ d = [of |-> s, wait |-> 0, since |-> since, until |-> 0, pc |-> "asked",
                         woken |-> FALSE, answer |-> NoCode, cut |-> FALSE]
    BY <1>2 DEF Asks
  <2> HIDE DEF since
  <2>7. CallTimes(d)'
    BY <1>0, <2>1, <2>2, <2>5, <2>6 DEF CallTimes, Seeking, NoCode, NoAddress
  <2>8. \A c \in calls : c.of # s
    BY <2>3 DEF TimeInv, Paced, CallTimes
  <2>9. d.of = s
    BY <2>5
  <2>10. \A c \in calls' : (c.of = s /\ CallTimes(c)') \/ (c.of # s /\ c \in calls)
    BY <2>5, <2>7, <2>8, <2>9
  <2> QED BY <1>0, <2>2, <2>4, <2>10, OnePaced
<1> QED BY <1>1, <1>2 DEF Begin

LEMMA LivesAt ==
  ASSUME TimeInv, NEW s \in SignIns, NEW c \in Live(s)
  PROVE  /\ c \in calls /\ c.of = s /\ ~c.cut /\ CallTimes(c)
         /\ Live(s) = {c}
         /\ signin[s].pc \in {"register", "await"}
         /\ ~signin[s].gmail
<1>1. c \in calls /\ c.of = s /\ ~c.cut /\ CallTimes(c)
  BY DEF Live, TimeInv, Paced
<1>2. signin[s].pc \in Waiting /\ Live(s) = {c}
  BY DEF TimeInv, TypeInv, OneCall
<1>3. Times(s)
  BY DEF TimeInv, Paced
<1> QED BY <1>1, <1>2, <1>3 DEF Waiting, Times

LEMMA RegisteredPaced ==
  ASSUME TimeInv, NEW s \in SignIns, NEW answer, Registered(s, answer), At(s, "register"),
         answer = NoAddress => ~address,
         now' = now, address' = address, hurt \subseteq hurt', calls' \subseteq calls
  PROVE  Paced'
<1>1. CASE Goes(s, "vtop")
  BY <1>1, GoesPaced DEF At
<1>2. CASE answer = NoAddress /\ Ends(s, "forwarding_required")
  BY <1>2, EndsPaced DEF Outcomes
<1>3. CASE answer = NoAddress /\ signin' = [signin EXCEPT ![s].pc = "refresh", ![s].gmail = TRUE]
  <2> DEFINE r == [signin[s] EXCEPT !.pc = "refresh", !.gmail = TRUE]
  <2>0. TypeInv
    BY DEF TimeInv
  <2>1. /\ signin' = [signin EXCEPT ![s] = r] /\ r \in SignIn /\ r.pc = "refresh" /\ r.gmail
        /\ r.began = signin[s].began /\ r.outcome = signin[s].outcome
    BY <1>3, <2>0, SignInTyped DEF TypeInv, Typed, SignIn, Phases
  <2> HIDE DEF r
  <2>2. signin'[s] = r /\ \A x \in SignIns : x # s => signin'[x] = signin[x]
    BY <2>0, <2>1, Changes
  <2>3. Times(s)
    BY DEF TimeInv, Paced
  <2>4. Times(s)'
    BY <1>3, <2>1, <2>2, <2>3 DEF Times, Seeking, At
  <2>5. signin'[s].pc \notin {"idle", "register", "await"} /\ signin'[s].pc \notin Seeking
    BY <2>1, <2>2 DEF Seeking
  <2> QED BY <2>2, <2>4, <2>5, QuietPaced
<1> QED BY <1>1, <1>2, <1>3 DEF Registered

(* The sign-in has a code to submit.                                       *)
LEMMA SubmitsPaced ==
  ASSUME TimeInv, NEW s \in SignIns, NEW code \in Codes, signin[s].pc \in Seeking,
         signin' = [signin EXCEPT ![s].pc = "submit", ![s].code = code],
         now' = now, address' = address, hurt \subseteq hurt', calls' \subseteq calls
  PROVE  Paced'
<1> DEFINE r == [signin[s] EXCEPT !.pc = "submit", !.code = code]
<1>0. TypeInv
  BY DEF TimeInv
<1>1. /\ signin' = [signin EXCEPT ![s] = r] /\ r \in SignIn /\ r.pc = "submit"
      /\ r.began = signin[s].began /\ r.outcome = signin[s].outcome /\ r.gmail = signin[s].gmail
      /\ r.issued = signin[s].issued /\ r.deadline = signin[s].deadline
  BY <1>0, SignInTyped DEF TypeInv, Typed, SignIn, Phases
<1> HIDE DEF r
<1>2. signin'[s] = r /\ \A x \in SignIns : x # s => signin'[x] = signin[x]
  BY <1>0, <1>1, Changes
<1>3. Times(s)
  BY DEF TimeInv, Paced
<1>4. Times(s)'
  BY <1>1, <1>2, <1>3 DEF Times, Seeking
<1>5. signin'[s].pc \notin {"idle", "register", "await"}
  BY <1>1, <1>2
<1> QED BY <1>1, <1>2, <1>4, <1>5, QuietPaced

LEMMA HearsPaced ==
  ASSUME TimeInv, NEW s \in SignIns, Hears(s)
  PROVE  Paced'
<1>1. PICK c \in Live(s) :
        /\ c.pc = "answered" /\ calls' = calls \ {c}
        /\ \/ At(s, "register") /\ Registered(s, c.answer)
           \/ At(s, "await") /\ Awaited(s, c.answer)
        /\ UNCHANGED <<now, faults, Student, mails, inbox, mailed, waiters, due, hurt>>
  BY DEF Hears
<1>2. c.answer = NoAddress => ~address
  BY LivesAt DEF CallTimes
<1>3. now' = now /\ address' = address /\ hurt \subseteq hurt' /\ calls' \subseteq calls
  BY <1>1 DEF Student
<1>4. CASE At(s, "register") /\ Registered(s, c.answer)
  BY <1>2, <1>3, <1>4, RegisteredPaced
<1>5. CASE At(s, "await") /\ Awaited(s, c.answer)
  <2>1. signin[s].pc \in Seeking /\ signin[s].pc # "report"
    BY <1>5 DEF At, Seeking
  <2>2. CASE Goes(s, "look")
    BY <1>3, <2>1, <2>2, GoesPaced
  <2>3. CASE c.answer = NoAddress /\ Ends(s, "forwarding_required")
    BY <1>2, <1>3, <2>3, EndsPaced DEF Outcomes
  <2>4. CASE c.answer \in Codes /\ signin' = [signin EXCEPT ![s].pc = "submit", ![s].code = c.answer]
    BY <1>3, <2>1, <2>4, SubmitsPaced
  <2> QED BY <1>5, <2>2, <2>3, <2>4 DEF Awaited
<1> QED BY <1>1, <1>4, <1>5

LEMMA CutPaced ==
  ASSUME TimeInv, NEW s \in SignIns, Cut(s)
  PROVE  Paced'
<1>1. PICK c \in Live(s), heard \in BOOLEAN :
        /\ calls' = (calls \ {c}) \cup
                      (IF heard /\ c.pc # "answered" THEN {[c EXCEPT !.cut = TRUE]} ELSE {})
        /\ hurt' = hurt \cup
             {x \in {s} : IF At(s, "register") THEN c.pc = "asked" ELSE heard}
        /\ Goes(s, IF At(s, "register") THEN "vtop" ELSE "pause")
  BY DEF Cut
<1>2. /\ c \in calls /\ c.of = s /\ CallTimes(c) /\ Live(s) = {c} /\ ~signin[s].gmail
      /\ signin[s].pc \in {"register", "await"}
  BY LivesAt
<1>3. PICK pc : pc = IF At(s, "register") THEN "vtop" ELSE "pause"
  OBVIOUS
<1>4. /\ signin'[s] = [signin[s] EXCEPT !.pc = pc] /\ signin'[s].pc = pc
      /\ \A x \in SignIns : x # s => signin'[x] = signin[x]
  BY <1>1, <1>3, GoesTo, PhaseNames DEF TimeInv
<1>5. /\ signin'[s].gmail = signin[s].gmail /\ signin'[s].began = signin[s].began
      /\ signin'[s].issued = signin[s].issued /\ signin'[s].deadline = signin[s].deadline
      /\ signin'[s].outcome = signin[s].outcome
  BY <1>4, SignInTyped DEF SignIn, TimeInv
<1>6. Times(s) /\ now' = now /\ address' = address /\ hurt \subseteq hurt'
  BY <1>1 DEF TimeInv, Paced, Cut, Student
<1>6a. /\ now \in Nat /\ signin[s].by \in Nat /\ signin[s].deadline \in Nat /\ Hang \in Nat
  BY NowTyped, SignInTyped, Times0
<1>7. Times(s)'
  BY <1>2, <1>6a, <1>3, <1>4, <1>5, <1>6 DEF Times, Seeking, At
<1>8. ASSUME NEW x \in calls', x.of = s PROVE CallTimes(x)'
  <2>1. \/ x \in calls
        \/ x = [c EXCEPT !.cut = TRUE]
    BY <1>1
  <2>2. CASE x \in calls
    <3>1. CallTimes(x)
      BY <2>2 DEF TimeInv, Paced
    <3> QED BY <1>2, <1>3, <1>4, <1>5, <1>6, <1>8, <3>1 DEF CallTimes, Seeking, At
  <2>3. CASE x = [c EXCEPT !.cut = TRUE]
    <3>1. /\ x.of = c.of /\ x.since = c.since /\ x.answer = c.answer /\ x.cut
          /\ x.wait = c.wait /\ x.pc = c.pc
      BY <1>2, <2>3, CallTyped DEF Call, TimeInv
    <3> QED BY <1>2, <1>3, <1>4, <1>5, <1>6, <3>1 DEF CallTimes, Seeking, At
  <2> QED BY <2>1, <2>2, <2>3
<1>9. \A x \in calls' : (x.of = s /\ CallTimes(x)') \/ (x.of # s /\ x \in calls)
  <2>1. [c EXCEPT !.cut = TRUE].of = s
    BY <1>2, CallTyped DEF Call, TimeInv
  <2> QED BY <1>1, <1>8, <2>1
<1> QED BY <1>4, <1>6, <1>7, <1>9, OnePaced

(* The sign-ins stay as they are.                                          *)
LEMMA EdgePaced ==
  ASSUME TimeInv, UNCHANGED signin, now' = now, address' => address, hurt \subseteq hurt',
         \A c \in calls' : c \in calls \/ CallTimes(c)'
  PROVE  Paced'
<1>1. \A s \in SignIns : Times(s)'
  BY TimesStay DEF TimeInv, Paced
<1>2. ASSUME NEW c \in calls, NEW x \in calls', x = c PROVE CallTimes(x)'
  BY <1>2, CallTimesStay DEF TimeInv, Paced
<1> QED BY <1>1, <1>2 DEF TimeInv, Paced

LEMMA HangsPaced ==
  ASSUME TimeInv, NEW s \in SignIns, Hangs(s)
  PROVE  Paced'
BY EdgePaced DEF Hangs, Student, Edge

LEMMA ResumesPaced ==
  ASSUME TimeInv, NEW s \in SignIns, Resumes(s)
  PROVE  Paced'
<1>1. signin[s].pc \in Seeking /\ signin[s].pc # "report"
  BY DEF Resumes, At, Seeking
<1>2. Goes(s, "look") /\ now' = now /\ address' = address /\ hurt \subseteq hurt' /\ calls' \subseteq calls
  BY DEF Resumes, Student, Edge
<1> QED BY <1>1, <1>2, GoesPaced

LEMMA RefreshPaced ==
  ASSUME TimeInv, NEW s \in SignIns, Refresh(s)
  PROVE  Paced'
<1>1. now' = now /\ address' = address /\ hurt \subseteq hurt' /\ calls' \subseteq calls /\ signin[s].pc # "report"
  BY DEF Refresh, Student, Edge, At
<1>2. CASE Goes(s, "vtop")
  BY <1>1, <1>2, GoesPaced
<1>3. CASE Ends(s, "gmail_revoked") \/ Ends(s, "failed")
  BY <1>1, <1>3, EndsPaced DEF Outcomes
<1> QED BY <1>2, <1>3 DEF Refresh

LEMMA LoginPaced ==
  ASSUME TimeInv, NEW s \in SignIns, Login(s)
  PROVE  Paced'
<1>0. now' = now /\ address' = address /\ hurt \subseteq hurt' /\ calls' \subseteq calls /\ TypeInv /\ now \in Nat /\ Slack <= now
  BY NowTyped DEF Login, Student
<1>1. CASE SignedIn(s) \/ Ends(s, "invalid") \/ Ends(s, "failed")
  BY <1>0, <1>1, EndsPaced DEF SignedIn, Outcomes
<1>2. CASE signin' = [signin EXCEPT ![s].pc = "look", ![s].issued = now, ![s].deadline = now + Wait]
  <2> DEFINE r == [signin[s] EXCEPT !.pc = "look", !.issued = now, !.deadline = now + Wait]
  <2>1. signin' = [signin EXCEPT ![s] = r]
    BY <1>0, <1>2 DEF TypeInv, Typed, SignIn
  <2>2. now + Wait \in Nat
    BY <1>0, Times0
  <2>3. /\ r \in SignIn /\ r.pc = "look" /\ r.issued = now /\ r.deadline = now + Wait
        /\ r.gmail = signin[s].gmail /\ r.began = signin[s].began /\ r.outcome = signin[s].outcome
    BY <1>0, <2>2, SignInTyped, PhaseNames DEF SignIn
  <2> HIDE DEF r
  <2>4. signin'[s] = r /\ \A x \in SignIns : x # s => signin'[x] = signin[x]
    BY <1>0, <2>1, <2>3, Changes
  <2>5. Times(s)
    BY DEF TimeInv, Paced
  <2>6. Times(s)'
    BY <1>0, <2>3, <2>4, <2>5 DEF Times, Seeking, Login, At
  <2>7. signin'[s].pc \notin {"idle", "register", "await"} /\ signin'[s].issued = now
    BY <2>3, <2>4
  <2> QED BY <1>0, <2>4, <2>6, <2>7, QuietPaced
<1> QED BY <1>1, <1>2 DEF Login

(* It sleeps until the next poll, or lists the mails.                      *)
LEMMA SleepsPaced ==
  ASSUME TimeInv, NEW s \in SignIns, NEW pc \in {"poll", "read"}, NEW until \in Nat, NEW code,
         Slept(s, pc, until, code),
         now' = now, address' = address, hurt \subseteq hurt', calls' \subseteq calls,
         signin[s].pc \in Seeking, signin[s].gmail, now <= until,
         pc = "poll" => until <= signin[s].deadline,
         pc = "read" => until <= signin[s].deadline + Reading /\ until <= now + Reading
  PROVE  Paced'
<1>1. Times(s) /\ signin[s].pc # "report"
  BY DEF TimeInv, Paced, Seeking
<1>2. Times(s)'
  BY <1>1 DEF Times, Seeking, Slept
<1>3. signin'[s].pc \notin {"idle", "register", "await"} /\ signin'[s].issued = signin[s].issued
      /\ \A x \in SignIns : x # s => signin'[x] = signin[x]
  BY DEF Slept
<1> QED BY <1>2, <1>3, QuietPaced

LEMMA LookPaced ==
  ASSUME TimeInv, NEW s \in SignIns, Look(s)
  PROVE  Paced'
<1>0. now' = now /\ address' = address /\ hurt \subseteq hurt' /\ TypeInv /\ now \in Nat /\ signin[s].pc = "look"
  BY NowTyped DEF Look, Student, At
<1>1. CASE Ends(s, "no code") /\ UNCHANGED calls
  BY <1>0, <1>1, EndsPaced DEF Outcomes
<1> DEFINE left == Before(signin[s].deadline, now)
<1>2. left # 0 => now < signin[s].deadline /\ left = signin[s].deadline - now
  BY <1>0, SignInTyped DEF Before
<1>3. CASE left # 0 /\ signin[s].gmail /\ Sleeps(s, now) /\ UNCHANGED calls
  <2>1. now <= signin[s].deadline
    BY <1>0, <1>2, <1>3, SignInTyped
  <2>2. signin[s].pc \in Seeking
    BY <1>0 DEF Seeking
  <2>3. Slept(s, "poll", now, signin[s].code)
    BY <1>0, <1>3, SleepsSo, PhaseNames DEF Sleeps
  <2> QED BY <1>0, <1>3, <2>1, <2>2, <2>3, SleepsPaced
<1>4. CASE /\ left # 0 /\ ~signin[s].gmail
           /\ signin' = [signin EXCEPT ![s].pc = "await", ![s].by = now + Hang]
           /\ Asks(s, Before(signin[s].issued, Slack), StepOf(left))
  <2>0. Slept(s, "await", now + Hang, signin[s].code)
    <3>1. now + Hang \in Nat
      BY <1>0, Times0
    <3> QED BY <1>0, <1>4, <3>1, SleepsSo, PhaseNames
  <2>1. /\ signin'[s].pc = "await" /\ signin'[s].by = now + Hang
        /\ \A x \in SignIns : x # s => signin'[x] = signin[x]
    BY <2>0 DEF Slept
  <2>2. /\ signin'[s].gmail = signin[s].gmail /\ signin'[s].began = signin[s].began
        /\ signin'[s].issued = signin[s].issued /\ signin'[s].deadline = signin[s].deadline
        /\ signin'[s].outcome = signin[s].outcome
    BY <2>0 DEF Slept
  <2>3. Times(s)
    BY DEF TimeInv, Paced
  <2>4. /\ now <= signin[s].deadline /\ Slack <= signin[s].issued /\ signin[s].issued <= now
    BY <1>0, <1>2, <1>4, <2>3, SignInTyped DEF Times, Seeking
  <2>5. Times(s)'
    BY <1>0, <1>4, <2>1, <2>2, <2>3, <2>4, Times0, SignInTyped DEF Times, Seeking
  <2>6. PICK d : /\ calls' = calls \cup {d}
                 /\ d = [of |-> s, wait |-> StepOf(left), since |-> Before(signin[s].issued, Slack),
                         until |-> 0, pc |-> "asked", woken |-> FALSE, answer |-> NoCode, cut |-> FALSE]
    BY <1>4 DEF Asks
  <2>7. d.since \in Nat /\ d.since + Slack = signin[s].issued
    <3>1. signin[s].issued \in Nat /\ Slack \in Nat
      BY <1>0, SignInTyped, Times0
    <3>2. /\ Before(signin[s].issued, Slack) \in Nat
          /\ Before(signin[s].issued, Slack) = signin[s].issued - Slack
      BY <2>4, <3>1, BeforeNat
    <3>3. d.since = Before(signin[s].issued, Slack)
      BY <2>6
    <3> QED BY <3>1, <3>2, <3>3
  <2>8. now + d.wait <= signin[s].deadline
    BY <1>0, <1>2, <1>4, <2>6, Times0, SignInTyped DEF StepOf, Least
  <2> HIDE DEF left
  <2>9. CallTimes(d)'
    <3>1. d.pc = "asked" /\ d.of = s /\ d.answer # NoAddress
      BY <2>6 DEF NoCode, NoAddress
    <3>2. d.since + Slack <= now
      BY <2>4, <2>7
    <3>3. d.since + Slack <= signin[s].issued
      BY <1>0, <2>7, SignInTyped
    <3>4. /\ signin'[d.of].pc = "await" /\ signin'[d.of].issued = signin[s].issued
          /\ signin'[d.of].deadline = signin[s].deadline /\ now' = now
      BY <1>0, <2>1, <2>2, <3>1
    <3> QED BY <2>8, <3>1, <3>2, <3>3, <3>4 DEF CallTimes
  <2>10. ASSUME NEW c \in calls, c.of = s PROVE CallTimes(c)'
    <3>1. CallTimes(c) /\ c.cut
      BY <1>0, <2>10 DEF TimeInv, Paced, TypeInv, OneCall, Live, Waiting
    <3> QED BY <1>0, <2>1, <2>2, <2>10, <3>1 DEF CallTimes, Seeking
  <2>11. d.of = s
    BY <2>6
  <2>12. \A c \in calls' : (c.of = s /\ CallTimes(c)') \/ (c.of # s /\ c \in calls)
    BY <2>6, <2>9, <2>10, <2>11
  <2> QED BY <1>0, <2>1, <2>5, <2>12, OnePaced
<1> QED BY <1>1, <1>3, <1>4 DEF Look

LEMMA ListsPaced ==
  ASSUME TimeInv, NEW s \in SignIns, Lists(s)
  PROVE  Paced'
<1>0. /\ now' = now /\ address' = address /\ hurt \subseteq hurt' /\ calls' \subseteq calls
      /\ signin[s].pc \in Seeking /\ TypeInv /\ signin[s].pc = "poll"
  BY DEF Lists, Student, Edge, At, Seeking, TimeInv
<1>1. PICK code \in Codes \cup {NoCode} : Slept(s, "read", now + Reading, code)
  BY <1>0, ListsSo
<1>2. Times(s) /\ now \in Nat /\ signin[s].by \in Nat /\ signin[s].deadline \in Nat
  BY <1>0, NowTyped, SignInTyped DEF TimeInv, Paced
<1>3. signin[s].gmail /\ now <= signin[s].deadline
  BY <1>0, <1>2 DEF Times
<1>4. /\ now + Reading \in Nat /\ now <= now + Reading
      /\ now + Reading <= signin[s].deadline + Reading
  BY <1>2, <1>3, Times0
<1> QED BY <1>0, <1>1, <1>3, <1>4, SleepsPaced

LEMMA ReadsPaced ==
  ASSUME TimeInv, NEW s \in SignIns, Reads(s)
  PROVE  Paced'
<1>0. /\ now' = now /\ address' = address /\ hurt \subseteq hurt' /\ calls' \subseteq calls
      /\ signin[s].pc \in Seeking /\ TypeInv /\ signin[s].pc = "read"
  BY DEF Reads, Student, Edge, At, Seeking, TimeInv
<1>1. CASE Ends(s, "no code")
  BY <1>0, <1>1, EndsPaced DEF Outcomes
<1>2. CASE signin[s].code \in Codes /\ Goes(s, "submit")
  <2>1. signin' = [signin EXCEPT ![s].pc = "submit", ![s].code = signin[s].code]
    BY <1>0, <1>2 DEF Goes, TypeInv, Typed, SignIn
  <2> QED BY <1>0, <1>2, <2>1, SubmitsPaced
<1>3. CASE now + Step <= signin[s].deadline /\ Slept(s, "poll", now + Step, NoCode)
  <2>1. signin[s].gmail /\ now \in Nat
    BY <1>0, NowTyped DEF TimeInv, Paced, Times
  <2>2. now + Step \in Nat /\ now <= now + Step
    BY <2>1, Times0
  <2> QED BY <1>0, <1>3, <2>1, <2>2, SleepsPaced
<1> QED BY <1>0, <1>1, <1>2, <1>3, ReadsSo

LEMMA PollFailsPaced ==
  ASSUME TimeInv, NEW s \in SignIns, PollFails(s)
  PROVE  Paced'
<1>1. now' = now /\ address' = address /\ hurt \subseteq hurt' /\ calls' \subseteq calls /\ Ends(s, "no code")
  BY DEF PollFails, Student, Edge
<1> QED BY <1>1, EndsPaced DEF Outcomes

LEMMA SubmitPaced ==
  ASSUME TimeInv, NEW s \in SignIns, Submit(s)
  PROVE  Paced'
<1>0. /\ now' = now /\ address' = address /\ hurt \subseteq hurt' /\ calls' \subseteq calls /\ TypeInv
      /\ signin[s].pc = "submit" /\ signin[s].code \in Codes
  BY DEF Submit, Student, TimeInv, TypeInv, Coded, At
<1>1. CASE SignedIn(s) \/ Ends(s, "failed")
  BY <1>0, <1>1, EndsPaced DEF SignedIn, Outcomes
<1>2. CASE signin' = [signin EXCEPT ![s].pc = "look", ![s].tried = @ \cup {signin[s].code},
                          ![s].code = NoCode, ![s].late = now >= signin[s].deadline]
  <2> DEFINE late == now >= signin[s].deadline
             r == [signin[s] EXCEPT !.pc = "look", !.tried = @ \cup {signin[s].code},
                                    !.code = NoCode, !.late = late]
  <2>1. late \in BOOLEAN
    OBVIOUS
  <2>2. signin' = [signin EXCEPT ![s] = r]
    BY <1>0, <1>2 DEF TypeInv, Typed, SignIn
  <2> HIDE DEF late
  <2>3. /\ r \in SignIn /\ r.pc = "look"
        /\ r.gmail = signin[s].gmail /\ r.began = signin[s].began /\ r.outcome = signin[s].outcome
        /\ r.issued = signin[s].issued /\ r.deadline = signin[s].deadline
    BY <1>0, <2>1, SignInTyped, PhaseNames DEF SignIn
  <2> HIDE DEF r
  <2>4. signin'[s] = r /\ \A x \in SignIns : x # s => signin'[x] = signin[x]
    BY <1>0, <2>2, <2>3, Changes
  <2>5. Times(s)
    BY DEF TimeInv, Paced
  <2>6. Times(s)'
    BY <1>0, <2>3, <2>4, <2>5 DEF Times, Seeking
  <2>7. signin'[s].pc \notin {"idle", "register", "await"} /\ signin[s].pc \in Seeking
    BY <1>0, <2>3, <2>4 DEF Seeking
  <2> QED BY <1>0, <2>3, <2>4, <2>6, <2>7, QuietPaced
<1> QED BY <1>1, <1>2 DEF Submit

LEMMA ReportPaced ==
  ASSUME TimeInv, NEW s \in SignIns, Report(s)
  PROVE  Paced'
<1>0. /\ now' = now /\ address' = address /\ hurt \subseteq hurt' /\ calls' \subseteq calls /\ TypeInv /\ now \in Nat
      /\ signin[s].pc = "report" /\ Times(s)
  BY NowTyped DEF Report, Student, Edge, At, TimeInv, Paced
<1>1. CASE signin' = [signin EXCEPT ![s] = [Idle EXCEPT !.pc = "over"]]
  <2>1. /\ signin'[s] = [Idle EXCEPT !.pc = "over"]
        /\ \A x \in SignIns : x # s => signin'[x] = signin[x]
    BY <1>0, <1>1 DEF TypeInv, Typed
  <2>2. /\ signin'[s].pc = "over" /\ signin'[s].began = 0 /\ signin'[s].gmail = FALSE
        /\ signin'[s].outcome = "none"
    BY <2>1 DEF Idle
  <2>3. Times(s)'
    BY <1>0, <2>2 DEF Times, Seeking
  <2>4. signin'[s].pc \notin {"idle", "register", "await"} /\ signin'[s].pc \notin Seeking
    BY <2>2 DEF Seeking
  <2> QED BY <1>0, <2>1, <2>3, <2>4, QuietPaced
<1>2. CASE signin' = [signin EXCEPT ![s].reports = @ + 1]
  <2>1. /\ signin'[s] = [signin[s] EXCEPT !.reports = @ + 1]
        /\ \A x \in SignIns : x # s => signin'[x] = signin[x]
    BY <1>0, <1>2 DEF TypeInv, Typed
  <2>2. /\ signin'[s].pc = "report" /\ signin'[s].began = signin[s].began
        /\ signin'[s].gmail = signin[s].gmail /\ signin'[s].outcome = signin[s].outcome
    BY <1>0, <2>1, SignInTyped DEF SignIn
  <2>3. Times(s)'
    BY <1>0, <2>2 DEF Times, Seeking
  <2>4. signin'[s].pc \notin {"idle", "register", "await"} /\ signin'[s].pc \notin Seeking
    BY <2>2 DEF Seeking
  <2> QED BY <1>0, <2>1, <2>3, <2>4, QuietPaced
<1> QED BY <1>1, <1>2 DEF Report

(* The Mailbox answers a call, or has it wait.                             *)
LEMMA AnswersPaced ==
  ASSUME TimeInv, UNCHANGED signin, now' = now, address' = address, hurt \subseteq hurt',
         NEW c \in calls, NEW answer, Answers(c, answer), answer = NoAddress => ~address
  PROVE  Paced'
<1>1. c \in Call /\ CallTimes(c)
  BY CallTyped DEF TimeInv, Paced
<1>2. ASSUME NEW d, d = [c EXCEPT !.pc = "answered", !.answer = answer] PROVE CallTimes(d)'
  <2>1. d.pc = "answered" /\ d.answer = answer /\ d.of = c.of /\ d.since = c.since /\ d.cut = c.cut /\ d.wait = c.wait
    BY <1>1, <1>2 DEF Call
  <2> QED BY <1>1, <2>1 DEF CallTimes
<1>3. ASSUME NEW x \in calls' PROVE x \in calls \/ CallTimes(x)'
  BY <1>2 DEF Answers
<1> QED BY <1>3, EdgePaced

LEMMA ParksPaced ==
  ASSUME TimeInv, UNCHANGED signin, now' = now, address' = address, hurt \subseteq hurt',
         NEW c \in calls, NEW until \in Nat,
         ~c.cut => signin[c.of].pc # "register",
         ~c.cut /\ signin[c.of].pc = "await" /\ c.of \notin hurt => until <= signin[c.of].deadline,
         calls' = (calls \ {c}) \cup {[c EXCEPT !.pc = "parked", !.until = until, !.woken = FALSE]}
  PROVE  Paced'
<1>1. c \in Call /\ CallTimes(c)
  BY CallTyped DEF TimeInv, Paced
<1>2. ASSUME NEW d, d = [c EXCEPT !.pc = "parked", !.until = until, !.woken = FALSE] PROVE CallTimes(d)'
  <2>1. /\ d.pc = "parked" /\ d.answer = c.answer /\ d.of = c.of /\ d.since = c.since /\ d.cut = c.cut
        /\ d.wait = c.wait /\ d.until = until
    BY <1>1, <1>2 DEF Call
  <2> QED BY <1>1, <2>1 DEF CallTimes
<1>3. ASSUME NEW x \in calls' PROVE x \in calls \/ CallTimes(x)'
  BY <1>2
<1> QED BY <1>3, EdgePaced

LEMMA CodeNames == \A code \in Codes : code # NoCode /\ code # NoAddress
BY ChallengesAssumption DEF Codes, NoCode, NoAddress

LEMMA LooksAtPaced ==
  ASSUME TimeInv, UNCHANGED signin, now' = now, address' = address, hurt \subseteq hurt',
         NEW c \in calls, NEW w \in {NoWaiter} \cup Waiter, NEW until \in Nat,
         ~c.cut /\ ~Over(until) => signin[c.of].pc # "register",
         ~c.cut /\ signin[c.of].pc = "await" /\ c.of \notin hurt => until <= signin[c.of].deadline,
         LooksAt(c, w, until)
  PROVE  Paced'
<1>1. CASE w # NoWaiter /\ w.results # << >>
  <2>1. Answers(c, Head(w.results))
    BY <1>1 DEF LooksAt
  <2>2. w.results \in Seq(Codes)
    BY <1>1 DEF Waiter
  <2>3. Head(w.results) \in Codes
    BY <1>1, <2>2, HeadTailProperties
  <2> QED BY <2>1, <2>3, CodeNames, AnswersPaced
<1>2. CASE ~(w # NoWaiter /\ w.results # << >>) /\ Over(until)
  <2>1. Answers(c, NoCode)
    BY <1>2 DEF LooksAt
  <2> QED BY <2>1, AnswersPaced DEF NoCode, NoAddress
<1>3. CASE ~(w # NoWaiter /\ w.results # << >>) /\ ~Over(until)
  BY <1>3, ParksPaced DEF LooksAt
<1> QED BY <1>1, <1>2, <1>3

LEMMA AwaitCodePaced ==
  ASSUME TimeInv, NEW c \in calls, AwaitCode(c)
  PROVE  Paced'
<1>0. UNCHANGED signin /\ now' = now /\ address' = address /\ hurt \subseteq hurt' /\ TypeInv /\ now \in Nat
  BY NowTyped DEF AwaitCode, Engine, Student
<1>1. c.pc = "asked" /\ CallTimes(c) /\ c.wait \in Nat /\ c.of \in SignIns
  BY <1>0, CallTyped DEF AwaitCode, TimeInv, Paced
<1>2. CASE address
  <2>1. LooksAt(c, WaiterOf(c), now + c.wait)
    BY <1>2 DEF AwaitCode, WaiterOf
  <2>2. WaiterOf(c) \in {NoWaiter} \cup Waiter /\ now + c.wait \in Nat
    BY <1>0, <1>1, WaiterOfTyped
  <2>3. ~c.cut /\ ~Over(now + c.wait) => signin[c.of].pc # "register"
    BY <1>0, <1>1 DEF CallTimes, Over
  <2>4. ~c.cut /\ signin[c.of].pc = "await" /\ c.of \notin hurt => now + c.wait <= signin[c.of].deadline
    BY <1>1 DEF CallTimes
  <2> QED BY <1>0, <2>1, <2>2, <2>3, <2>4, LooksAtPaced
<1>3. CASE ~address
  BY <1>0, <1>3, AnswersPaced DEF AwaitCode
<1> QED BY <1>2, <1>3

LEMMA AwakePaced ==
  ASSUME TimeInv, NEW c \in calls, Awake(c)
  PROVE  Paced'
<1>0. UNCHANGED signin /\ now' = now /\ address' = address /\ hurt \subseteq hurt' /\ TypeInv /\ now \in Nat
  BY NowTyped DEF Awake, Engine, Student
<1>1. c.pc = "parked" /\ CallTimes(c) /\ c.until \in Nat /\ c.of \in SignIns
  BY <1>0, CallTyped DEF Awake, MayLook, TimeInv, Paced
<1>2. LooksAt(c, waiters[c.of], c.until) /\ waiters[c.of] \in {NoWaiter} \cup Waiter
  BY <1>0, <1>1, WaiterTyped DEF Awake
<1>3. ~c.cut => signin[c.of].pc # "register"
  BY <1>1 DEF CallTimes
<1>4. ~c.cut /\ signin[c.of].pc = "await" /\ c.of \notin hurt => c.until <= signin[c.of].deadline
  BY <1>1 DEF CallTimes
<1> QED BY <1>0, <1>1, <1>2, <1>3, <1>4, LooksAtPaced

LEMMA HandPaced ==
  ASSUME TimeInv, NEW m \in mails, Hand(m)
  PROVE  Paced'
<1>1. PICK s \in m.todo \cap SignIns :
        /\ calls' = IF waiters[s] = NoWaiter THEN calls
                    ELSE {IF c.of = s /\ c.pc = "parked" THEN [c EXCEPT !.woken = TRUE] ELSE c : c \in calls}
        /\ UNCHANGED <<now, faults, Student, inbox, mailed, Engine>>
  BY DEF Hand
<1>2. UNCHANGED signin /\ now' = now /\ address' = address /\ hurt \subseteq hurt'
  BY <1>1 DEF Engine, Student
<1>3. ASSUME NEW x \in calls' PROVE x \in calls \/ CallTimes(x)'
  <2>1. x \in calls \/ \E c \in calls : x = [c EXCEPT !.woken = TRUE]
    BY <1>1
  <2>2. ASSUME NEW c \in calls, x = [c EXCEPT !.woken = TRUE] PROVE CallTimes(x)'
    <3>1. c \in Call /\ CallTimes(c)
      BY CallTyped DEF TimeInv, Paced
    <3>2. /\ x.pc = c.pc /\ x.answer = c.answer /\ x.of = c.of /\ x.since = c.since /\ x.cut = c.cut
          /\ x.wait = c.wait /\ x.until = c.until
      BY <2>2, <3>1 DEF Call
    <3> QED BY <1>2, <3>1, <3>2 DEF CallTimes
  <2> QED BY <2>1, <2>2
<1> QED BY <1>2, <1>3, EdgePaced

LEMMA OtherPaced ==
  ASSUME TimeInv,
         \/ \E m \in mails : Arrives(m) \/ HandFails(m)
         \/ Alarm \/ DeleteAddress \/ UNCHANGED vars
         \/ \E f \in Foreign : ForeignSignIn(f)
  PROVE  Paced'
<1>1. UNCHANGED signin /\ now' = now /\ (address' => address) /\ hurt \subseteq hurt' /\ calls' = calls
  <2>1. ASSUME NEW m \in mails, Arrives(m) \/ HandFails(m)
        PROVE  UNCHANGED signin /\ now' = now /\ (address' => address) /\ hurt \subseteq hurt' /\ calls' = calls
    BY <2>1 DEF Arrives, HandFails, Student
  <2>2. CASE Alarm \/ DeleteAddress
    BY <2>2 DEF Alarm, DeleteAddress, Student
  <2>3. CASE UNCHANGED vars
    BY <2>3 DEF vars
  <2>4. ASSUME NEW f \in Foreign, ForeignSignIn(f)
        PROVE  UNCHANGED signin /\ now' = now /\ (address' => address) /\ hurt \subseteq hurt' /\ calls' = calls
    BY <2>4 DEF ForeignSignIn, Student, Engine
  <2> QED BY <2>1, <2>2, <2>3, <2>4
<1>2. \A c \in calls' : c \in calls \/ CallTimes(c)'
  BY <1>1
<1> QED BY <1>1, <1>2, EdgePaced

LEMMA TickPaced ==
  ASSUME TimeInv, Tick
  PROVE  Paced'
<1>0. /\ now' = now + 1 /\ now \in Nat /\ Slack <= now /\ TypeInv
      /\ UNCHANGED <<signin, address, calls, hurt>> /\ ~AtOnce
  BY NowTyped DEF Tick, Student, Edge, Engine
<1>1. ASSUME NEW c \in calls
      PROVE  /\ c.of \notin hurt => c.pc = "parked" /\ now < c.until
             /\ CallTimes(c) /\ c.until \in Nat /\ c.since \in Nat /\ c.of \in SignIns
  BY <1>0, CallTyped DEF AtOnce, MayLook, Over, TimeInv, Paced
<1>2. ASSUME NEW c \in calls PROVE CallTimes(c)'
  BY <1>0, <1>1, Times0 DEF CallTimes
<1>3. ASSUME NEW s \in SignIns PROVE Times(s)'
  <2>1. /\ Times(s) /\ signin[s].began \in Nat /\ signin[s].issued \in Nat /\ signin[s].deadline \in Nat
        /\ signin'[s] = signin[s] /\ signin[s].by \in Nat
    BY <1>0, SignInTyped DEF TimeInv, Paced
  <2>2. signin[s].pc # "pause" /\ (signin[s].pc \in {"poll", "read", "await"} => now + 1 <= signin[s].by)
    BY <1>0, <2>1, Times0 DEF AtOnce, Waiting
  <2>3. signin[s].pc = "await" /\ s \notin hurt => now + 1 <= signin[s].deadline
    <3> SUFFICES ASSUME signin[s].pc = "await", s \notin hurt PROVE now + 1 <= signin[s].deadline
      OBVIOUS
    <3>1. PICK c \in calls : Live(s) = {c}
      BY DEF TimeInv, TypeInv, OneCall, Waiting
    <3>2. c.of = s /\ ~c.cut
      BY <3>1 DEF Live
    <3>3. c.pc = "parked" /\ now < c.until /\ c.until <= signin[s].deadline
      BY <1>1, <3>2 DEF CallTimes
    <3> QED BY <1>0, <1>1, <2>1, <3>3
  <2> QED BY <1>0, <2>1, <2>2, <2>3, Times0 DEF Times, Seeking
<1> QED BY <1>0, <1>2, <1>3, Times0 DEF Paced

LEMMA TimeNext ==
  ASSUME TimeInv, [Next]_vars
  PROVE  TimeInv'
<1>0. TypeInv /\ Slack <= now
  BY NowTyped
<1>1. TypeInv'
  BY <1>0, NextTyped
<1>2. Paced'
  <2>1. ASSUME NEW s \in SignIns, SignInStep(s) PROVE Paced'
    BY <2>1, BeginPaced, HearsPaced, HangsPaced, CutPaced, ResumesPaced, RefreshPaced, LoginPaced, LookPaced,
       ListsPaced, ReadsPaced, PollFailsPaced, SubmitPaced, ReportPaced
       DEF SignInStep
  <2>2. CASE EdgeStep
    BY <2>2, AwaitCodePaced, AwakePaced, HandPaced, OtherPaced DEF EdgeStep
  <2>3. ASSUME NEW f \in Foreign, ForeignSignIn(f) PROVE Paced'
    BY <2>3, OtherPaced
  <2>4. CASE DeleteAddress \/ UNCHANGED vars
    BY <2>4, OtherPaced
  <2>5. CASE Tick
    BY <2>5, TickPaced
  <2> QED BY <2>1, <2>2, <2>3, <2>4, <2>5 DEF Next
<1> QED BY <1>1, <1>2 DEF TimeInv

LEMMA Timely == Spec => []TimeInv
<1>1. Init => TimeInv
  BY InitTyped, InitPaced DEF TimeInv
<1>2. TimeInv /\ [Next]_vars => TimeInv'
  BY TimeNext
<1> QED BY <1>1, <1>2, PTL DEF Spec

(* Whatever arrives late, breaks off or is sent twice, what the engine and *)
(* the Mailbox keep has its type, and a sign-in that waits at the edge has *)
(* one call there (ForwardedCodes::next).                                  *)
THEOREM TypeOKHolds == Spec => []TypeOK
<1>1. TimeInv => TypeOK
  <2> SUFFICES ASSUME TimeInv PROVE TypeOK
    OBVIOUS
  <2>1. ASSUME NEW s \in SignIns
        PROVE  Cardinality({c \in calls : c.of = s /\ ~c.cut}) = IF signin[s].pc \in Waiting THEN 1 ELSE 0
    <3>1. {c \in calls : c.of = s /\ ~c.cut} = Live(s)
      BY DEF Live
    <3>2. CASE signin[s].pc \in Waiting
      <4>1. PICK c \in calls : Live(s) = {c}
        BY <3>2 DEF TimeInv, TypeInv, OneCall
      <4>2. Cardinality({c}) = 1
        BY FS_Singleton
      <4> QED BY <3>1, <3>2, <4>1, <4>2
    <3>3. CASE signin[s].pc \notin Waiting
      <4>1. Live(s) = {} /\ Cardinality({}) = 0
        BY <3>3, FS_EmptySet DEF TimeInv, TypeInv, OneCall
      <4> QED BY <3>1, <3>3, <4>1
    <3> QED BY <3>2, <3>3
  <2>2. \A s \in SignIns : \/ waiters[s] = NoWaiter
                           \/ waiters[s] \in [since: Nat, expires: Nat, results: Seq(Codes)]
    BY WaiterTyped DEF TimeInv, Waiter
  <2> QED BY <2>1, <2>2 DEF TimeInv, TypeInv, Typed, TypeOK
<1> QED BY Timely, <1>1, PTL

(* A sign-in waits at most for the call or the poll under way after its    *)
(* deadline, and not at all while its connection is sound, whoever is      *)
(* asked how often (login_with_otp_from, ForwardedCodes::next,             *)
(* wait_for_otp).                                                          *)
THEOREM WaitsInTimeHolds == Spec => []WaitsInTime
<1>1. TimeInv => WaitsInTime
  <2> SUFFICES ASSUME TimeInv, NEW s \in SignIns
               PROVE  LET deadline == signin[s].issued + Wait
                      IN /\ signin[s].pc \in {"await", "pause"}
                              => now <= deadline + (IF s \in hurt THEN Hang ELSE 0)
                         /\ signin[s].pc = "poll" => now <= deadline
                         /\ signin[s].pc = "read" => now <= deadline + Reading
    BY DEF WaitsInTime
  <2>1. Times(s) /\ now \in Nat /\ signin[s].issued \in Nat /\ signin[s].by \in Nat /\ signin[s].deadline \in Nat
    BY NowTyped, SignInTyped DEF TimeInv, Paced
  <2> QED BY <2>1, Times0 DEF Times, Seeking
<1> QED BY Timely, <1>1, PTL

(* Nobody is told to set up forwarding who has an address (sign_in).       *)
THEOREM AskedToForwardHolds == Spec => []AskedToForward
<1>1. TimeInv => AskedToForward
  BY DEF TimeInv, Paced, Times, AskedToForward
<1> QED BY Timely, <1>1, PTL

(***************************************************************************)
(* Where the codes are.                                                    *)
(***************************************************************************)
LEMMA InitCodes == Init => CodeInv
<1> SUFFICES ASSUME Init PROVE CodeInv
  OBVIOUS
<1>1. TimeInv
  BY InitTyped, InitPaced DEF TimeInv
<1>2. ASSUME NEW s \in SignIns PROVE Watched(s) /\ Safe(s)
  BY DEF Init, Watched, WaiterTimes, Registration, Reached, GmailLook, Safe, Idle, Seeking
<1>3. Mailed
  BY DEF Init, Mailed
<1> QED BY <1>1, <1>2, <1>3 DEF Init, CodeInv

(* What a step of sign-in s leaves to another one, x.                      *)
LEMMA OthersKeep ==
  ASSUME CodeInv, NEW s, NEW x \in SignIns, x # s,
         now' = now, address' = address, waiters' = waiters, mails \subseteq mails', due' = due,
         hurt \subseteq hurt', signin'[x] = signin[x], Live(x)' = Live(x),
         \A i \in DOMAIN inbox :
           inbox[i].code # s => \E j \in DOMAIN inbox' : inbox'[j].code = inbox[i].code
  PROVE  Watched(x)' /\ Safe(x)'
<1>0. Watched(x) /\ Safe(x)
  BY DEF CodeInv
<1>1. Watched(x)'
  BY <1>0 DEF Watched, WaiterTimes, Registration, Reached, GmailLook
<1>2. Safe(x)'
  <2> SUFFICES ASSUME x \in due \ hurt' PROVE InHand(x)' /\ InInbox(x)' /\ ~Missed(x)'
    BY DEF Safe
  <2>0. InHand(x) /\ InInbox(x) /\ ~Missed(x)
    BY <1>0 DEF Safe
  <2>1. Underway(x) => Underway(x)'
    BY DEF Underway, Handing, Stored, Answered
  <2>2. Submitting(x)' <=> Submitting(x)
    BY DEF Submitting
  <2>3. InHand(x)'
    BY <2>0, <2>1, <2>2 DEF InHand
  <2>4. InInbox(x)'
    BY <2>0, <2>2 DEF InInbox
  <2> QED BY <2>0, <2>3, <2>4 DEF Missed, GivenUp
<1> QED BY <1>1, <1>2

(* A step of one sign-in.                                                  *)
LEMMA SignInCodes ==
  ASSUME CodeInv, TimeInv', NEW s \in SignIns,
         now' = now, address' = address, waiters' = waiters, mails \subseteq mails', due' = due,
         hurt \subseteq hurt', \A x \in SignIns : x # s => signin'[x] = signin[x],
         \A c \in calls' : c \in calls \/ (c.of = s /\ Asleep(c)'),
         \A c \in calls : c.of # s => c \in calls',
         \A i \in DOMAIN inbox :
           inbox[i].code # s => \E j \in DOMAIN inbox' : inbox'[j].code = inbox[i].code,
         Watched(s)', Safe(s)', Mailed'
  PROVE  CodeInv'
<1>1. ASSUME NEW x \in SignIns PROVE Watched(x)' /\ Safe(x)'
  <2>1. CASE x = s
    BY <2>1
  <2>2. CASE x # s
    <3>1. Live(x)' = Live(x)
      BY <2>2 DEF Live
    <3> QED BY <2>2, <3>1, OthersKeep
  <2> QED BY <2>1, <2>2
<1>2. ASSUME NEW c \in calls' PROVE Asleep(c)'
  <2>1. CASE c \in calls
    BY <2>1 DEF CodeInv, Asleep
  <2> QED BY <2>1
<1> QED BY <1>1, <1>2 DEF CodeInv

LEMMA MailedStays ==
  ASSUME CodeInv, NEW s \in SignIns,
         mailed' = mailed, mails' = mails, due' = due,
         \A x \in SignIns : x # s => signin'[x] = signin[x],
         s \in mailed => signin'[s].pc \in Seeking \cup Ended,
         s \in mailed /\ signin'[s].pc \in Seeking =>
           signin[s].pc \in Seeking /\ signin'[s].issued = signin[s].issued,
         \A j \in DOMAIN inbox' : \E i \in DOMAIN inbox : inbox'[j] = inbox[i]
  PROVE  Mailed'
<1>0. Mailed
  BY DEF CodeInv
<1>1. \A x \in mailed \cap SignIns : signin'[x].pc \in Seeking \cup Ended
  BY <1>0 DEF Mailed
<1>2. ASSUME NEW m \in mails PROVE MailTimes(m)'
  <2>1. MailTimes(m)
    BY <1>0 DEF Mailed
  <2> QED BY <2>1 DEF MailTimes
<1>3. ASSUME NEW j \in DOMAIN inbox'
      PROVE  /\ inbox'[j].code \in mailed
             /\ inbox'[j].code \in SignIns /\ signin'[inbox'[j].code].pc \in Seeking
                  => signin'[inbox'[j].code].issued <= inbox'[j].at
  <2>1. PICK i \in DOMAIN inbox : inbox'[j] = inbox[i]
    OBVIOUS
  <2>2. /\ inbox[i].code \in mailed
        /\ inbox[i].code \in SignIns /\ signin[inbox[i].code].pc \in Seeking
             => signin[inbox[i].code].issued <= inbox[i].at
    BY <1>0 DEF Mailed
  <2> QED BY <2>1, <2>2
<1> QED BY <1>0, <1>1, <1>2, <1>3 DEF Mailed

LEMMA WaiterTimesStay ==
  ASSUME CodeInv, NEW s \in SignIns, now' = now, waiters' = waiters,
         signin'[s].pc # "idle",
         signin'[s].began = signin[s].began \/ signin'[s].began = 0,
         signin'[s].pc \in Seeking =>
           \/ signin'[s].issued = now
           \/ signin[s].pc \in Seeking /\ signin'[s].issued = signin[s].issued
  PROVE  WaiterTimes(s)'
<1>1. WaiterTimes(s) /\ TypeInv
  BY DEF CodeInv, Watched, TimeInv
<1>2. waiters[s] # NoWaiter => waiters[s].since \in Nat /\ waiters[s].expires \in Nat
  BY <1>1, WaiterTyped
<1>3. signin[s].began \in Nat
  BY <1>1, SignInTyped
<1> QED BY <1>1, <1>2, <1>3, Times0 DEF WaiterTimes

(* VTOP did not mail the sign-in's code yet.                               *)
LEMMA NotDue ==
  ASSUME CodeInv, NEW s \in SignIns, signin[s].pc \notin Seeking \cup Ended
  PROVE  s \notin mailed /\ s \notin due
BY DEF CodeInv, Mailed

LEMMA EndsFields ==
  ASSUME TypeInv, NEW s \in SignIns, NEW outcome \in Outcomes, Ends(s, outcome)
  PROVE  /\ \A x \in SignIns : x # s => signin'[x] = signin[x]
         /\ signin'[s].pc = "report" /\ signin'[s].outcome = outcome
         /\ signin'[s].gmail = signin[s].gmail /\ signin'[s].began = signin[s].began
         /\ signin'[s].late = signin[s].late /\ signin'[s].tried = signin[s].tried
<1>1. /\ signin'[s] = [signin[s] EXCEPT !.pc = "report", !.outcome = outcome]
      /\ signin'[s].pc = "report" /\ signin'[s].outcome = outcome
      /\ \A x \in SignIns : x # s => signin'[x] = signin[x]
  BY EndsWith
<1> QED BY <1>1, SignInTyped DEF SignIn

(* A sign-in that fails or succeeds, and not for want of a code.           *)
LEMMA EndsCodes ==
  ASSUME CodeInv, TimeInv', NEW s \in SignIns, NEW outcome \in Outcomes, Ends(s, outcome),
         now' = now, address' = address, waiters' = waiters, mails' = mails, mailed' = mailed,
         due' = due, hurt \subseteq hurt',
         calls' \subseteq calls, \A c \in calls : c.of # s => c \in calls',
         \A i \in DOMAIN inbox :
           inbox[i].code # s => \E j \in DOMAIN inbox' : inbox'[j].code = inbox[i].code,
         \A j \in DOMAIN inbox' : \E i \in DOMAIN inbox : inbox'[j] = inbox[i],
         outcome = "no code" =>
           s \notin due \ hurt' \/ signin[s].late \/ s \in signin[s].tried \/ signin[s].gmail
  PROVE  CodeInv'
<1>0. TypeInv
  BY DEF CodeInv, TimeInv
<1>1. /\ \A x \in SignIns : x # s => signin'[x] = signin[x]
      /\ signin'[s].pc = "report" /\ signin'[s].outcome = outcome
      /\ signin'[s].gmail = signin[s].gmail /\ signin'[s].began = signin[s].began
      /\ signin'[s].late = signin[s].late /\ signin'[s].tried = signin[s].tried
  BY <1>0, EndsFields
<1>2. signin'[s].gmail = signin[s].gmail /\ signin'[s].late = signin[s].late /\ signin'[s].tried = signin[s].tried
  BY <1>1
<1>3. signin'[s].pc \notin Seeking /\ signin'[s].pc \in Seeking \cup Ended
  BY <1>1 DEF Seeking, Ended
<1>4. WaiterTimes(s)'
  BY <1>1, <1>2, <1>3, WaiterTimesStay
<1>5. Watched(s)'
  BY <1>1, <1>3, <1>4 DEF Watched, Registration, Reached, GmailLook
<1>6. Safe(s)'
  BY <1>1, <1>2, <1>3 DEF Safe, InHand, InInbox, Missed, GivenUp
<1>7. Mailed'
  BY <1>1, <1>3, MailedStays
<1> QED BY <1>1, <1>5, <1>6, <1>7, SignInCodes

LEMMA AlwaysMailed ==
  ASSUME CodeInv, UNCHANGED inbox, NEW s
  PROVE  /\ \A i \in DOMAIN inbox :
              inbox[i].code # s => \E j \in DOMAIN inbox' : inbox'[j].code = inbox[i].code
         /\ \A j \in DOMAIN inbox' : \E i \in DOMAIN inbox : inbox'[j] = inbox[i]
OBVIOUS

LEMMA BeginCodes ==
  ASSUME CodeInv, TimeInv', NEW s \in SignIns, Begin(s)
  PROVE  CodeInv'
<1>0. /\ TimeInv /\ TypeInv /\ now' = now /\ address' = address /\ waiters' = waiters
      /\ mails' = mails /\ mailed' = mailed /\ due' = due /\ hurt' = hurt /\ inbox' = inbox
      /\ signin[s].pc = "idle" /\ now \in Nat
  BY NowTyped DEF Begin, Student, CodeInv, TimeInv, At
<1>1. s \notin mailed /\ s \notin due
  BY <1>0, NotDue DEF Seeking, Ended
<1>2. CASE Ends(s, "vault_unusable") /\ UNCHANGED calls
  <2>1. "vault_unusable" \in Outcomes /\ "vault_unusable" # "no code"
    BY DEF Outcomes
  <2> QED BY <1>0, <1>2, <2>1, AlwaysMailed, EndsCodes
<1>3. CASE signin' = [signin EXCEPT ![s].pc = "register", ![s].began = now, ![s].by = now + Hang]
           /\ Asks(s, Before(now, Slack), 0)
  <2>1. /\ signin'[s] = [signin[s] EXCEPT !.pc = "register", !.began = now, !.by = now + Hang]
        /\ \A x \in SignIns : x # s => signin'[x] = signin[x]
    BY <1>0, <1>3 DEF TypeInv, Typed, SignIn
  <2>2. signin'[s].pc = "register" /\ signin'[s].outcome = signin[s].outcome
    BY <1>0, <2>1, SignInTyped DEF SignIn
  <2>3. waiters[s] = NoWaiter /\ Live(s) = {}
    BY <1>0 DEF CodeInv, Watched, WaiterTimes, TypeInv, OneCall, Waiting
  <2>4. PICK d : /\ calls' = calls \cup {d}
                 /\ d = [of |-> s, wait |-> 0, since |-> Before(now, Slack), until |-> 0, pc |-> "asked",
                         woken |-> FALSE, answer |-> NoCode, cut |-> FALSE]
    BY <1>3 DEF Asks
  <2>4a. d.of = s /\ d.cut = FALSE /\ d.pc = "asked"
    BY <2>4
  <2>5. Asleep(d)'
    BY <2>4a DEF Asleep
  <2>6. \A c \in Live(s)' : c.pc # "answered"
    BY <2>3, <2>4, <2>4a DEF Live
  <2>7. Watched(s)'
    BY <1>0, <2>2, <2>3, <2>6 DEF Watched, WaiterTimes, Registration, Reached, GmailLook, Seeking
  <2>8. Safe(s)'
    BY <1>0, <1>1 DEF Safe
  <2>9. Mailed'
    BY <1>0, <1>1, <2>1, AlwaysMailed, MailedStays
  <2>10. /\ \A c \in calls' : c \in calls \/ (c.of = s /\ Asleep(c)')
         /\ \A c \in calls : c.of # s => c \in calls'
    BY <2>4, <2>4a, <2>5
  <2>11. mails \subseteq mails' /\ hurt \subseteq hurt'
    BY <1>0
  <2> QED BY <1>0, <2>1, <2>7, <2>8, <2>9, <2>10, <2>11, AlwaysMailed, SignInCodes
<1> QED BY <1>2, <1>3 DEF Begin

LEMMA GoesFields ==
  ASSUME TypeInv, NEW s \in SignIns, NEW pc \in Phases, Goes(s, pc)
  PROVE  /\ \A x \in SignIns : x # s => signin'[x] = signin[x]
         /\ signin'[s].pc = pc /\ signin'[s].gmail = signin[s].gmail /\ signin'[s].began = signin[s].began
         /\ signin'[s].issued = signin[s].issued /\ signin'[s].deadline = signin[s].deadline
         /\ signin'[s].tried = signin[s].tried /\ signin'[s].outcome = signin[s].outcome
         /\ signin'[s].late = signin[s].late /\ signin'[s].code = signin[s].code
<1>1. signin'[s] = [signin[s] EXCEPT !.pc = pc] /\ \A x \in SignIns : x # s => signin'[x] = signin[x]
  BY GoesTo
<1> QED BY <1>1, SignInTyped DEF SignIn

(* A sign-in that goes on before VTOP mailed a code.                       *)
LEMMA EarlyCodes ==
  ASSUME CodeInv, TimeInv', NEW s \in SignIns,
         signin[s].pc \notin Seeking \cup Ended,
         signin'[s].pc \in {"vtop", "refresh"}, signin'[s].began = signin[s].began,
         \A x \in SignIns : x # s => signin'[x] = signin[x],
         now' = now, address' = address, waiters' = waiters, mails' = mails, mailed' = mailed,
         due' = due, inbox' = inbox, hurt \subseteq hurt',
         \A c \in calls' : c \in calls \/ (c.of = s /\ Asleep(c)'),
         \A c \in calls : c.of # s => c \in calls',
         Registration(s)'
  PROVE  CodeInv'
<1>1. s \notin mailed /\ s \notin due
  BY NotDue
<1>2. signin'[s].pc \notin Seeking /\ signin'[s].pc # "idle" /\ signin'[s].pc # "look"
  BY DEF Seeking
<1>3. WaiterTimes(s)'
  BY <1>2, WaiterTimesStay
<1>4. Watched(s)'
  BY <1>2, <1>3 DEF Watched, GmailLook
<1>5. Safe(s)'
  BY <1>1 DEF Safe
<1>6. Mailed'
  BY <1>1, AlwaysMailed, MailedStays
<1> QED BY <1>4, <1>5, <1>6, AlwaysMailed, SignInCodes

LEMMA HearsCodes ==
  ASSUME CodeInv, TimeInv', NEW s \in SignIns, Hears(s)
  PROVE  CodeInv'
<1>0. TimeInv /\ TypeInv /\ Watched(s) /\ Safe(s)
  BY DEF CodeInv, TimeInv
<1>1. PICK c \in Live(s) :
        /\ c.pc = "answered" /\ calls' = calls \ {c}
        /\ \/ At(s, "register") /\ Registered(s, c.answer)
           \/ At(s, "await") /\ Awaited(s, c.answer)
        /\ UNCHANGED <<now, faults, Student, mails, inbox, mailed, waiters, due, hurt>>
  BY DEF Hears
<1>2. /\ c \in calls /\ c.of = s /\ ~c.cut /\ Live(s) = {c} /\ ~signin[s].gmail
      /\ c.answer = NoAddress => ~address
  BY <1>0, LivesAt DEF CallTimes
<1>3. /\ now' = now /\ address' = address /\ waiters' = waiters /\ mails' = mails /\ mailed' = mailed
      /\ due' = due /\ inbox' = inbox /\ hurt' = hurt
      /\ calls' \subseteq calls /\ \A x \in calls : x.of # s => x \in calls'
  BY <1>1, <1>2 DEF Student
<1>4. ASSUME NEW outcome \in {"forwarding_required"}, Ends(s, outcome) PROVE CodeInv'
  <2>1. outcome \in Outcomes /\ outcome # "no code"
    BY DEF Outcomes
  <2> QED BY <1>3, <1>4, <2>1, AlwaysMailed, EndsCodes
<1>5. CASE At(s, "register") /\ Registered(s, c.answer)
  <2>0. signin[s].pc \notin Seeking \cup Ended /\ signin[s].pc = "register"
    BY <1>5 DEF At, Seeking, Ended
  <2>1. CASE Goes(s, "vtop")
    <3>1. /\ signin'[s].pc = "vtop" /\ signin'[s].began = signin[s].began
          /\ signin'[s].gmail = signin[s].gmail
          /\ \A x \in SignIns : x # s => signin'[x] = signin[x]
      BY <1>0, <2>1, GoesFields, PhaseNames
    <3>2. Registration(s)'
      BY <1>0, <1>1, <1>3, <2>0, <3>1 DEF Watched, Registration, Reached
    <3> QED BY <1>3, <2>0, <3>1, <3>2, EarlyCodes
  <2>2. CASE signin' = [signin EXCEPT ![s].pc = "refresh", ![s].gmail = TRUE]
    <3>1. /\ signin'[s] = [signin[s] EXCEPT !.pc = "refresh", !.gmail = TRUE]
          /\ \A x \in SignIns : x # s => signin'[x] = signin[x]
      BY <1>0, <2>2 DEF TypeInv, Typed, SignIn
    <3>2. signin'[s].pc = "refresh" /\ signin'[s].began = signin[s].began
      BY <1>0, <3>1, SignInTyped DEF SignIn
    <3>3. Registration(s)'
      BY <3>2 DEF Registration, Reached, Seeking
    <3> QED BY <1>3, <2>0, <3>1, <3>2, <3>3, EarlyCodes
  <2> QED BY <1>4, <1>5, <2>1, <2>2 DEF Registered
<1>6. CASE At(s, "await") /\ Awaited(s, c.answer)
  <2>0. signin[s].pc = "await" /\ signin[s].pc \in Seeking
    BY <1>6 DEF At, Seeking
  <2> DEFINE Went ==
        /\ \A x \in SignIns : x # s => signin'[x] = signin[x]
        /\ signin'[s].gmail = signin[s].gmail /\ signin'[s].began = signin[s].began
        /\ signin'[s].issued = signin[s].issued /\ signin'[s].deadline = signin[s].deadline
        /\ signin'[s].tried = signin[s].tried /\ signin'[s].outcome = signin[s].outcome
        /\ signin'[s].late = signin[s].late
  <2>1. ASSUME Went, signin'[s].pc \in {"look", "submit"},
               s \in due \ hurt => s \in signin[s].tried \/ Submitting(s)' \/ c.answer # s
        PROVE  CodeInv'
    <3>0. signin'[s].pc \in Seeking
      BY <2>1 DEF Seeking
    <3>1. WaiterTimes(s)'
      BY <1>3, <2>0, <2>1, WaiterTimesStay
    <3>2. Registration(s)'
      BY <1>0, <1>3, <2>0, <2>1 DEF Watched, Registration, Reached
    <3>3. Watched(s)'
      BY <1>2, <2>1, <3>1, <3>2 DEF Watched, GmailLook
    <3>4. Safe(s)'
      <4> SUFFICES ASSUME s \in due \ hurt PROVE InHand(s)' /\ InInbox(s)' /\ ~Missed(s)'
        BY <1>3 DEF Safe
      <4>1. InHand(s) /\ ~Missed(s)
        BY <1>0 DEF Safe
      <4>2. InInbox(s)' /\ ~Missed(s)'
        BY <1>2, <2>1, <4>1 DEF InInbox, Missed, GivenUp
      <4>3. /\ address /\ waiters[s] # NoWaiter
            /\ \/ s \in signin[s].tried
               \/ Underway(s) /\ (now < signin[s].deadline \/ signin[s].late)
        BY <1>2, <2>0, <4>1 DEF InHand, Submitting
      <4>4. Underway(s) /\ c.answer # s => Underway(s)'
        BY <1>2, <1>3 DEF Underway, Handing, Stored, Answered
      <4> QED BY <1>3, <2>1, <4>2, <4>3, <4>4 DEF InHand
    <3>5. Mailed'
      BY <1>3, <2>0, <2>1, <3>0, AlwaysMailed, MailedStays
    <3> QED BY <1>3, <2>1, <3>3, <3>4, <3>5, AlwaysMailed, SignInCodes
  <2>2. CASE Goes(s, "look") /\ c.answer \notin Codes \ signin[s].tried
    <3>1. Went /\ signin'[s].pc = "look"
      BY <1>0, <2>2, GoesFields, PhaseNames
    <3>2. s \in Codes
      BY DEF Codes
    <3> QED BY <2>1, <2>2, <3>1, <3>2
  <2>3. CASE c.answer \in Codes /\ signin' = [signin EXCEPT ![s].pc = "submit", ![s].code = c.answer]
    <3>1. /\ signin'[s] = [signin[s] EXCEPT !.pc = "submit", !.code = c.answer]
          /\ \A x \in SignIns : x # s => signin'[x] = signin[x]
      BY <1>0, <2>3 DEF TypeInv, Typed, SignIn
    <3>2. Went /\ signin'[s].pc = "submit" /\ signin'[s].code = c.answer
      BY <1>0, <3>1, SignInTyped DEF SignIn
    <3>3. Submitting(s)' \/ c.answer # s
      BY <3>2 DEF Submitting
    <3> QED BY <2>1, <3>2, <3>3
  <2> QED BY <1>4, <1>6, <2>2, <2>3 DEF Awaited
<1> QED BY <1>1, <1>5, <1>6

LEMMA CutCodes ==
  ASSUME CodeInv, TimeInv', NEW s \in SignIns, Cut(s)
  PROVE  CodeInv'
<1>0. TimeInv /\ TypeInv /\ Watched(s) /\ Safe(s)
  BY DEF CodeInv, TimeInv
<1>1. PICK c \in Live(s), heard \in BOOLEAN :
        /\ c.pc # "asked" => heard
        /\ calls' = (calls \ {c}) \cup
                      (IF heard /\ c.pc # "answered" THEN {[c EXCEPT !.cut = TRUE]} ELSE {})
        /\ hurt' = hurt \cup
             {x \in {s} : IF At(s, "register") THEN c.pc = "asked" ELSE heard}
        /\ Goes(s, IF At(s, "register") THEN "vtop" ELSE "pause")
  BY DEF Cut
<1>2. /\ c \in calls /\ c.of = s /\ ~c.cut /\ Live(s) = {c} /\ ~signin[s].gmail /\ CallTimes(c)
      /\ signin[s].pc \in {"register", "await"}
      /\ c \in Call /\ c.pc \in {"asked", "parked", "answered"}
  BY <1>0, LivesAt, CallTyped
<1>3. /\ now' = now /\ address' = address /\ waiters' = waiters /\ mails' = mails /\ mailed' = mailed
      /\ due' = due /\ inbox' = inbox /\ hurt \subseteq hurt'
  BY <1>1 DEF Cut, Student
<1>4. \A x \in calls : x.of # s => x \in calls'
  BY <1>1, <1>2
<1>5. ASSUME NEW x \in calls', x \notin calls PROVE x.of = s /\ Asleep(x)'
  <2>1. heard /\ c.pc # "answered" /\ x = [c EXCEPT !.cut = TRUE]
    BY <1>1, <1>5
  <2>2. x.of = s /\ x.pc = c.pc /\ x.woken = c.woken
    BY <1>2, <2>1 DEF Call
  <2>3. s \in hurt'
    BY <1>1, <1>2, <2>1 DEF At, CallTimes
  <2>4. Asleep(c)
    BY <1>2 DEF CodeInv
  <2> QED BY <1>2, <1>3, <2>1, <2>2, <2>3, <2>4 DEF Asleep
<1>6. CASE signin[s].pc = "register"
  <2>1. Goes(s, "vtop")
    BY <1>1, <1>6 DEF At
  <2>2. /\ signin'[s].pc = "vtop" /\ signin'[s].began = signin[s].began
        /\ signin'[s].gmail = signin[s].gmail
        /\ \A x \in SignIns : x # s => signin'[x] = signin[x]
    BY <1>0, <2>1, GoesFields, PhaseNames
  <2>3. s \in hurt' \/ c.pc = "answered"
    BY <1>1, <1>2, <1>6 DEF At, CallTimes
  <2>4. Registration(s)'
    BY <1>0, <1>3, <1>6, <2>2, <2>3 DEF Watched, Registration, Reached
  <2>5. signin[s].pc \notin Seeking \cup Ended
    BY <1>6 DEF Seeking, Ended
  <2> QED BY <1>3, <1>4, <1>5, <2>2, <2>4, <2>5, EarlyCodes
<1>7. CASE signin[s].pc = "await"
  <2>1. Goes(s, "pause")
    BY <1>1, <1>7 DEF At
  <2>2. /\ \A x \in SignIns : x # s => signin'[x] = signin[x]
        /\ signin'[s].gmail = signin[s].gmail /\ signin'[s].began = signin[s].began
        /\ signin'[s].issued = signin[s].issued /\ signin'[s].deadline = signin[s].deadline
        /\ signin'[s].tried = signin[s].tried /\ signin'[s].outcome = signin[s].outcome
        /\ signin'[s].late = signin[s].late /\ signin'[s].pc = "pause"
    BY <1>0, <2>1, GoesFields, PhaseNames
  <2>3. signin[s].pc \in Seeking /\ signin'[s].pc \in Seeking
    BY <1>7, <2>2 DEF Seeking
  <2>4. WaiterTimes(s)'
    BY <1>3, <2>2, <2>3, WaiterTimesStay
  <2>5. Registration(s)'
    BY <1>0, <1>3, <2>2, <2>3 DEF Watched, Registration, Reached
  <2>6. Watched(s)'
    BY <2>2, <2>4, <2>5 DEF Watched, GmailLook
  <2>7. Safe(s)'
    <3> SUFFICES ASSUME s \in due \ hurt' PROVE InHand(s)' /\ InInbox(s)' /\ ~Missed(s)'
      BY <1>3 DEF Safe
    <3>1. InHand(s) /\ ~Missed(s)
      BY <1>0, <1>3 DEF Safe
    <3>2. c.pc = "asked"
      BY <1>1, <1>7 DEF At
    <3>3. Underway(s) => Underway(s)'
      BY <1>2, <1>3, <3>2 DEF Underway, Handing, Stored, Answered
    <3>4. InInbox(s)' /\ ~Missed(s)'
      BY <1>2, <2>2, <3>1 DEF InInbox, Missed, GivenUp
    <3> QED BY <1>2, <1>3, <1>7, <2>2, <2>3, <3>1, <3>3, <3>4 DEF InHand, Submitting
  <2>8. Mailed'
    BY <1>3, <2>2, <2>3, AlwaysMailed, MailedStays
  <2>9. \A x \in calls' : x \in calls \/ (x.of = s /\ Asleep(x)')
    BY <1>5
  <2> QED BY <1>3, <1>4, <2>2, <2>6, <2>7, <2>8, <2>9, AlwaysMailed, SignInCodes
<1> QED BY <1>2, <1>6, <1>7

(* A sign-in that goes on looking for its code.                            *)
LEMMA SeekingCodes ==
  ASSUME CodeInv, TimeInv', NEW s \in SignIns,
         signin[s].pc \in Seeking, signin'[s].pc \in Seeking,
         signin'[s].gmail = signin[s].gmail, signin'[s].began = signin[s].began,
         signin'[s].issued = signin[s].issued,
         \A x \in SignIns : x # s => signin'[x] = signin[x],
         now' = now, address' = address, waiters' = waiters, mails' = mails, mailed' = mailed,
         due' = due, inbox' = inbox, hurt \subseteq hurt',
         \A c \in calls' : c \in calls \/ (c.of = s /\ Asleep(c)'),
         \A c \in calls : c.of # s => c \in calls',
         GmailLook(s)', Safe(s)'
  PROVE  CodeInv'
<1>0. Registration(s)
  BY DEF CodeInv, Watched
<1>1. WaiterTimes(s)'
  <2>1. signin'[s].pc # "idle"
    BY DEF Seeking
  <2> QED BY <2>1, WaiterTimesStay
<1>2. Registration(s)'
  BY <1>0 DEF Registration, Reached
<1>3. Watched(s)'
  BY <1>1, <1>2 DEF Watched
<1>4. Mailed'
  BY AlwaysMailed, MailedStays
<1> QED BY <1>3, <1>4, AlwaysMailed, SignInCodes

LEMMA ResumesCodes ==
  ASSUME CodeInv, TimeInv', NEW s \in SignIns, Resumes(s)
  PROVE  CodeInv'
<1>0. /\ TimeInv /\ TypeInv /\ Safe(s) /\ Times(s) /\ signin[s].pc = "pause" /\ ~signin[s].gmail
      /\ now' = now /\ address' = address /\ waiters' = waiters /\ mails' = mails /\ mailed' = mailed
      /\ due' = due /\ inbox' = inbox /\ hurt' = hurt /\ calls' = calls
  BY DEF CodeInv, TimeInv, Paced, Times, Resumes, At, Student, Edge
<1>1. /\ \A x \in SignIns : x # s => signin'[x] = signin[x]
      /\ signin'[s].gmail = signin[s].gmail /\ signin'[s].began = signin[s].began
      /\ signin'[s].issued = signin[s].issued /\ signin'[s].deadline = signin[s].deadline
      /\ signin'[s].tried = signin[s].tried /\ signin'[s].outcome = signin[s].outcome
      /\ signin'[s].late = signin[s].late /\ signin'[s].pc = "look"
  BY <1>0, GoesFields, PhaseNames DEF Resumes
<1>2. signin[s].pc \in Seeking /\ signin'[s].pc \in Seeking
  BY <1>0, <1>1 DEF Seeking
<1>3. GmailLook(s)'
  BY <1>0, <1>1 DEF GmailLook
<1>4. Safe(s)'
  <2> SUFFICES ASSUME s \in due \ hurt PROVE InHand(s)' /\ InInbox(s)' /\ ~Missed(s)'
    BY <1>0 DEF Safe
  <2>1. InHand(s) /\ ~Missed(s)
    BY <1>0 DEF Safe
  <2>2. Underway(s) => Underway(s)'
    BY <1>0 DEF Underway, Handing, Stored, Answered, Live
  <2> QED BY <1>0, <1>1, <1>2, <2>1, <2>2 DEF InHand, InInbox, Missed, GivenUp, Submitting
<1>5. /\ \A c \in calls' : c \in calls
      /\ \A c \in calls : c \in calls'
  BY <1>0
<1> QED BY <1>0, <1>1, <1>2, <1>3, <1>4, <1>5, SeekingCodes

LEMMA RefreshCodes ==
  ASSUME CodeInv, TimeInv', NEW s \in SignIns, Refresh(s)
  PROVE  CodeInv'
<1>0. /\ TimeInv /\ TypeInv /\ Times(s) /\ signin[s].pc = "refresh" /\ signin[s].gmail
      /\ now' = now /\ address' = address /\ waiters' = waiters /\ mails' = mails /\ mailed' = mailed
      /\ due' = due /\ inbox' = inbox /\ hurt' = hurt /\ calls' = calls
  BY DEF CodeInv, TimeInv, Paced, Times, Refresh, At, Student, Edge
<1>1. CASE Goes(s, "vtop")
  <2>1. /\ \A x \in SignIns : x # s => signin'[x] = signin[x]
        /\ signin'[s].gmail = signin[s].gmail /\ signin'[s].began = signin[s].began
        /\ signin'[s].pc = "vtop"
    BY <1>0, <1>1, GoesFields, PhaseNames
  <2>2. Registration(s)'
    BY <1>0, <2>1 DEF Registration
  <2>3. signin[s].pc \notin Seeking \cup Ended
    BY <1>0 DEF Seeking, Ended
  <2> QED BY <1>0, <2>1, <2>2, <2>3, EarlyCodes
<1>2. ASSUME NEW outcome \in {"gmail_revoked", "failed"}, Ends(s, outcome) PROVE CodeInv'
  <2>1. outcome \in Outcomes /\ outcome # "no code"
    BY DEF Outcomes
  <2> QED BY <1>0, <1>2, <2>1, AlwaysMailed, EndsCodes
<1> QED BY <1>1, <1>2 DEF Refresh

LEMMA LoginCodes ==
  ASSUME CodeInv, TimeInv', NEW s \in SignIns, Login(s)
  PROVE  CodeInv'
<1>0. /\ TimeInv /\ TypeInv /\ Watched(s) /\ Mailed /\ signin[s].pc = "vtop"
      /\ now' = now /\ address' = address /\ waiters' = waiters
      /\ due' = due /\ inbox' = inbox /\ hurt' = hurt /\ calls' = calls
      /\ now \in Nat /\ Slack <= now
  BY NowTyped DEF CodeInv, TimeInv, Login, At, Student
<1>1. s \notin mailed /\ s \notin due
  BY <1>0, NotDue DEF Seeking, Ended
<1>2. ASSUME NEW outcome \in {"ok", "vault_unusable", "invalid", "failed"}, Ends(s, outcome),
             UNCHANGED <<mails, mailed>>
      PROVE  CodeInv'
  <2>1. outcome \in Outcomes /\ outcome # "no code"
    BY DEF Outcomes
  <2> QED BY <1>0, <1>2, <2>1, AlwaysMailed, EndsCodes
<1>3. CASE /\ signin' = [signin EXCEPT ![s].pc = "look", ![s].issued = now, ![s].deadline = now + Wait]
           /\ \E behind \in 0..Drift :
                mails' = mails \cup {[code |-> s, sentAt |-> now - behind, todo |-> {"sent"}]}
           /\ mailed' = mailed \cup {s}
  <2>1. /\ signin'[s] = [signin[s] EXCEPT !.pc = "look", !.issued = now, !.deadline = now + Wait]
        /\ \A x \in SignIns : x # s => signin'[x] = signin[x]
    BY <1>0, <1>3 DEF TypeInv, Typed, SignIn
  <2>2. /\ signin'[s].pc = "look" /\ signin'[s].issued = now /\ signin'[s].deadline = now + Wait
        /\ signin'[s].gmail = signin[s].gmail /\ signin'[s].began = signin[s].began
    BY <1>0, <2>1, SignInTyped DEF SignIn
  <2>3. signin'[s].pc \in Seeking
    BY <2>2 DEF Seeking
  <2>4. WaiterTimes(s)'
    BY <1>0, <2>2, WaiterTimesStay
  <2>5. Registration(s)'
    BY <1>0, <2>2 DEF Watched, Registration, Reached
  <2>6. GmailLook(s)'
    BY <1>0, <2>2, Times0 DEF GmailLook
  <2>7. Watched(s)'
    BY <2>4, <2>5, <2>6 DEF Watched
  <2>8. Safe(s)'
    BY <1>0, <1>1 DEF Safe
  <2>9. PICK behind \in 0..Drift :
          mails' = mails \cup {[code |-> s, sentAt |-> now - behind, todo |-> {"sent"}]}
    BY <1>3
  <2>10. ASSUME NEW m \in mails' PROVE MailTimes(m)'
    <3>1. CASE m \in mails
      <4>1. MailTimes(m) /\ m.code # s
        BY <1>0, <1>1, <3>1 DEF Mailed, MailTimes
      <4> QED BY <1>3, <2>1, <4>1 DEF MailTimes
    <3>2. CASE m \notin mails
      <4>1. m.code = s /\ m.sentAt = now - behind
        BY <2>9, <3>2
      <4>2. now <= m.sentAt + Slack
        BY <1>0, <4>1, Times0
      <4>3. m.code \in mailed'
        BY <1>3, <4>1
      <4> QED BY <2>2, <4>1, <4>2, <4>3 DEF MailTimes
    <3> QED BY <3>1, <3>2
  <2>11. ASSUME NEW i \in DOMAIN inbox
         PROVE  /\ inbox[i].code \in mailed'
                /\ inbox[i].code \in SignIns /\ signin'[inbox[i].code].pc \in Seeking
                     => signin'[inbox[i].code].issued <= inbox[i].at
    <3>1. /\ inbox[i].code \in mailed
          /\ inbox[i].code \in SignIns /\ signin[inbox[i].code].pc \in Seeking
               => signin[inbox[i].code].issued <= inbox[i].at
      BY <1>0 DEF Mailed
    <3> QED BY <1>1, <1>3, <2>1, <3>1
  <2>12. Mailed'
    <3>1. \A x \in mailed' \cap SignIns : signin'[x].pc \in Seeking \cup Ended
      BY <1>0, <1>3, <2>1, <2>3 DEF Mailed
    <3>2. due' \subseteq mailed'
      BY <1>0, <1>3 DEF Mailed
    <3> QED BY <1>0, <2>10, <2>11, <3>1, <3>2 DEF Mailed
  <2>13. mails \subseteq mails' /\ hurt \subseteq hurt' /\ (\A c \in calls' : c \in calls)
         /\ \A c \in calls : c \in calls'
    BY <1>0, <2>9
  <2> QED BY <1>0, <2>1, <2>7, <2>8, <2>12, <2>13, AlwaysMailed, SignInCodes
<1> QED BY <1>2, <1>3 DEF Login, SignedIn

LEMMA LookCodes ==
  ASSUME CodeInv, TimeInv', NEW s \in SignIns, Look(s)
  PROVE  CodeInv'
<1>0. /\ TimeInv /\ TypeInv /\ Watched(s) /\ Safe(s) /\ signin[s].pc = "look"
      /\ now' = now /\ address' = address /\ waiters' = waiters /\ mails' = mails /\ mailed' = mailed
      /\ due' = due /\ inbox' = inbox /\ hurt' = hurt /\ now \in Nat
  BY NowTyped DEF CodeInv, TimeInv, Look, At, Student
<1>1. Live(s) = {} /\ signin[s].pc \in Seeking
  BY <1>0 DEF TypeInv, OneCall, Waiting, Seeking
<1> DEFINE left == Before(signin[s].deadline, now)
<1>2. (left = 0 <=> ~(now < signin[s].deadline)) /\ signin[s].deadline \in Nat
  BY <1>0, SignInTyped DEF Before
<1>3. CASE left = 0 /\ Ends(s, "no code") /\ UNCHANGED calls
  <2>1. s \in due \ hurt => signin[s].late \/ s \in signin[s].tried
    BY <1>0, <1>1, <1>2, <1>3 DEF Safe, InHand, Submitting, Watched, GmailLook
  <2>2. "no code" \in Outcomes
    BY DEF Outcomes
  <2> QED BY <1>0, <1>3, <2>1, <2>2, AlwaysMailed, EndsCodes
<1>4. ASSUME NEW pc \in {"poll", "await"}, NEW until, Slept(s, pc, until, signin[s].code),
             \A c \in calls' : c \in calls \/ (c.of = s /\ c.pc = "asked" /\ c.cut = FALSE),
             calls \subseteq calls'
      PROVE  CodeInv'
  <2>1. /\ \A x \in SignIns : x # s => signin'[x] = signin[x]
        /\ signin'[s].gmail = signin[s].gmail /\ signin'[s].began = signin[s].began
        /\ signin'[s].issued = signin[s].issued /\ signin'[s].deadline = signin[s].deadline
        /\ signin'[s].tried = signin[s].tried /\ signin'[s].outcome = signin[s].outcome
        /\ signin'[s].late = signin[s].late /\ signin'[s].pc = pc
    BY <1>4 DEF Slept
  <2>2. signin'[s].pc \in Seeking /\ GmailLook(s)'
    BY <2>1 DEF Seeking, GmailLook
  <2>3. Safe(s)'
    <3> SUFFICES ASSUME s \in due \ hurt PROVE InHand(s)' /\ InInbox(s)' /\ ~Missed(s)'
      BY <1>0 DEF Safe
    <3>1. InHand(s) /\ InInbox(s) /\ ~Missed(s)
      BY <1>0 DEF Safe
    <3>2. Underway(s) => Underway(s)'
      BY <1>0, <1>1 DEF Underway, Handing, Stored
    <3>3. ~Submitting(s)
      BY <1>0 DEF Submitting
    <3>4. InHand(s)'
      BY <1>0, <1>1, <2>1, <3>1, <3>2, <3>3 DEF InHand
    <3>5. InInbox(s)'
      BY <1>0, <1>1, <2>1, <3>1, <3>3 DEF InInbox
    <3> QED BY <2>1, <3>1, <3>4, <3>5 DEF Missed, GivenUp
  <2>4. \A c \in calls' : c \in calls \/ (c.of = s /\ Asleep(c)')
    BY <1>4 DEF Asleep
  <2>5. (\A c \in calls : c.of # s => c \in calls') /\ hurt \subseteq hurt'
    BY <1>0, <1>4
  <2> QED BY <1>0, <1>1, <2>1, <2>2, <2>3, <2>4, <2>5, SeekingCodes
<1>5. CASE Sleeps(s, now) /\ UNCHANGED calls
  <2>1. Slept(s, "poll", now, signin[s].code)
    BY <1>0, <1>5, SleepsSo, PhaseNames DEF Sleeps
  <2> QED BY <1>4, <1>5, <2>1
<1>6. CASE /\ signin' = [signin EXCEPT ![s].pc = "await", ![s].by = now + Hang]
           /\ Asks(s, Before(signin[s].issued, Slack), StepOf(left))
  <2> HIDE DEF left
  <2>0. now + Hang \in Nat
    BY <1>0, Times0
  <2>0a. Slept(s, "await", now + Hang, signin[s].code)
    BY <1>0, <1>6, <2>0, SleepsSo, PhaseNames
  <2>1. PICK d : /\ calls' = calls \cup {d}
                 /\ d = [of |-> s, wait |-> StepOf(left), since |-> Before(signin[s].issued, Slack),
                         until |-> 0, pc |-> "asked", woken |-> FALSE, answer |-> NoCode, cut |-> FALSE]
    BY <1>6 DEF Asks
  <2>2. d.of = s /\ d.pc = "asked" /\ d.cut = FALSE
    BY <2>1
  <2> QED BY <1>4, <2>0a, <2>1, <2>2
<1> QED BY <1>3, <1>5, <1>6 DEF Look

(* A list of mails, and what the engine makes of it.                       *)
LEMMA PollsOn ==
  ASSUME CodeInv, TimeInv', NEW s \in SignIns, signin[s].pc \in {"poll", "read"},
         NEW pc \in {"poll", "read", "submit"}, NEW until, NEW code, Slept(s, pc, until, code),
         UNCHANGED <<now, Student, Edge, due, hurt>>
  PROVE  CodeInv'
<1>0. /\ TypeInv /\ Safe(s) /\ signin[s].pc \in Seeking /\ signin[s].gmail
      /\ now' = now /\ address' = address /\ waiters' = waiters /\ mails' = mails /\ mailed' = mailed
      /\ due' = due /\ inbox' = inbox /\ hurt' = hurt /\ calls' = calls
  BY DEF CodeInv, TimeInv, Paced, Times, Seeking, Student, Edge
<1>1. signin'[s].pc \in Seeking /\ GmailLook(s)'
  BY DEF Slept, Seeking, GmailLook
<1>2. /\ \A x \in SignIns : x # s => signin'[x] = signin[x]
      /\ signin'[s].gmail = signin[s].gmail /\ signin'[s].began = signin[s].began
      /\ signin'[s].issued = signin[s].issued
  BY DEF Slept
<1>3. Safe(s)'
  <2> SUFFICES ASSUME s \in due \ hurt PROVE InHand(s)' /\ InInbox(s)' /\ ~Missed(s)'
    BY <1>0 DEF Safe
  <2>1. InInbox(s) /\ ~Missed(s) /\ ~Submitting(s)
    BY <1>0 DEF Safe, Submitting
  <2>2. InHand(s)' /\ ~Missed(s)'
    BY <1>0, <1>2 DEF InHand, Missed
  <2>3. InInbox(s)'
    BY <1>0, <2>1 DEF InInbox, Slept
  <2> QED BY <2>2, <2>3
<1>4. /\ \A c \in calls' : c \in calls
      /\ \A c \in calls : c \in calls'
  BY <1>0
<1> QED BY <1>0, <1>1, <1>2, <1>3, <1>4, SeekingCodes

LEMMA ListsCodes ==
  ASSUME CodeInv, TimeInv', NEW s \in SignIns, Lists(s)
  PROVE  CodeInv'
<1>1. TypeInv /\ signin[s].pc = "poll"
  BY DEF CodeInv, TimeInv, Lists, At
<1>2. PICK code : Slept(s, "read", now + Reading, code)
  BY <1>1, ListsSo
<1> QED BY <1>1, <1>2, PollsOn DEF Lists

LEMMA ReadsCodes ==
  ASSUME CodeInv, TimeInv', NEW s \in SignIns, Reads(s)
  PROVE  CodeInv'
<1>1. TypeInv /\ signin[s].pc = "read" /\ signin[s].gmail
  BY DEF CodeInv, TimeInv, Paced, Times, Reads, At
<1>2. CASE Ends(s, "no code")
  <2>1. /\ now' = now /\ address' = address /\ waiters' = waiters /\ mails' = mails /\ mailed' = mailed
        /\ due' = due /\ inbox' = inbox /\ hurt' = hurt /\ calls' = calls
    BY DEF Reads, Student, Edge
  <2>2. "no code" \in Outcomes
    BY DEF Outcomes
  <2> QED BY <1>1, <1>2, <2>1, <2>2, AlwaysMailed, EndsCodes
<1>3. ASSUME NEW pc \in {"poll", "submit"}, NEW until, NEW code, Slept(s, pc, until, code)
      PROVE  CodeInv'
  BY <1>1, <1>3, PollsOn DEF Reads
<1> QED BY <1>1, <1>2, <1>3, ReadsSo

LEMMA PollFailsCodes ==
  ASSUME CodeInv, TimeInv', NEW s \in SignIns, PollFails(s)
  PROVE  CodeInv'
<1>1. /\ now' = now /\ address' = address /\ waiters' = waiters /\ mails' = mails /\ mailed' = mailed
      /\ due' = due /\ inbox' = inbox /\ hurt' = hurt \cup {s} /\ calls' = calls
      /\ Ends(s, "no code") /\ "no code" \in Outcomes
  BY DEF PollFails, Student, Edge, Outcomes
<1> QED BY <1>1, AlwaysMailed, EndsCodes

LEMMA SubmitCodes ==
  ASSUME CodeInv, TimeInv', NEW s \in SignIns, Submit(s)
  PROVE  CodeInv'
<1>0. /\ TimeInv /\ TypeInv /\ Watched(s) /\ Safe(s)
      /\ signin[s].pc = "submit" /\ signin[s].code \in Codes
      /\ now' = now /\ address' = address /\ waiters' = waiters /\ mails' = mails /\ mailed' = mailed
      /\ due' = due /\ hurt' = hurt /\ calls' = calls
  BY DEF CodeInv, TimeInv, TypeInv, Coded, Submit, At, Student
<1>1. signin[s].pc \in Seeking /\ Live(s) = {}
  BY <1>0 DEF Seeking, TypeInv, OneCall, Waiting
<1>2. \/ UNCHANGED inbox
      \/ \E i \in DOMAIN inbox : inbox[i].code = s /\ inbox' = RemoveAt(inbox, i)
  BY DEF Submit
<1>3. /\ \A i \in DOMAIN inbox :
           inbox[i].code # s => \E j \in DOMAIN inbox' : inbox'[j].code = inbox[i].code
      /\ \A j \in DOMAIN inbox' : \E i \in DOMAIN inbox : inbox'[j] = inbox[i]
  <2>1. CASE UNCHANGED inbox
    BY <2>1, AlwaysMailed
  <2>2. ASSUME NEW k \in DOMAIN inbox, inbox[k].code = s, inbox' = RemoveAt(inbox, k)
        PROVE  /\ \A i \in DOMAIN inbox :
                    inbox[i].code # s => \E j \in DOMAIN inbox' : inbox'[j].code = inbox[i].code
               /\ \A j \in DOMAIN inbox' : \E i \in DOMAIN inbox : inbox'[j] = inbox[i]
    <3>1. /\ DOMAIN inbox = 1..Len(inbox) /\ Len(inbox) \in Nat
          /\ DOMAIN inbox' = 1..Len(inbox) - 1
          /\ \A j \in DOMAIN inbox' : inbox'[j] = inbox[IF j < k THEN j ELSE j + 1]
      <4>1. /\ inbox' \in Seq([code: Codes, at: Nat]) /\ Len(inbox') = Len(inbox) - 1
            /\ \A j \in DOMAIN inbox' : inbox'[j] = inbox[IF j < k THEN j ELSE j + 1]
        BY <1>0, <2>2, Without
      <4>2. inbox \in Seq([code: Codes, at: Nat])
        BY <1>0 DEF TypeInv, Typed
      <4> QED BY <4>1, <4>2, LenProperties
    <3>2. ASSUME NEW i \in DOMAIN inbox, inbox[i].code # s
          PROVE  \E j \in DOMAIN inbox' : inbox'[j].code = inbox[i].code
      <4>0. i # k /\ i \in 1..Len(inbox) /\ k \in 1..Len(inbox)
        BY <2>2, <3>1, <3>2
      <4>1. CASE i < k
        <5>1. i \in DOMAIN inbox' /\ inbox'[i] = inbox[i]
          BY <3>1, <4>0, <4>1
        <5> QED BY <5>1
      <4>2. CASE i > k
        <5>1. i - 1 \in DOMAIN inbox' /\ ~(i - 1 < k) /\ (i - 1) + 1 = i
          BY <3>1, <4>0, <4>2
        <5>2. inbox'[i - 1] = inbox[i]
          BY <3>1, <5>1
        <5> QED BY <5>1, <5>2
      <4> QED BY <4>0, <4>1, <4>2
    <3>3. ASSUME NEW j \in DOMAIN inbox' PROVE \E i \in DOMAIN inbox : inbox'[j] = inbox[i]
      <4>1. (IF j < k THEN j ELSE j + 1) \in DOMAIN inbox
        BY <3>1
      <4> QED BY <3>1, <4>1
    <3> QED BY <3>2, <3>3
  <2> QED BY <1>2, <2>1, <2>2
<1>4. ASSUME NEW outcome \in {"ok", "vault_unusable", "failed"}, Ends(s, outcome) PROVE CodeInv'
  <2>1. outcome \in Outcomes /\ outcome # "no code"
    BY DEF Outcomes
  <2> QED BY <1>0, <1>3, <1>4, <2>1, EndsCodes
<1>5. CASE /\ signin' = [signin EXCEPT ![s].pc = "look", ![s].tried = @ \cup {signin[s].code},
                           ![s].code = NoCode, ![s].late = now >= signin[s].deadline]
           /\ UNCHANGED inbox
  <2> DEFINE late == now >= signin[s].deadline
  <2>1. /\ signin'[s] = [signin[s] EXCEPT !.pc = "look", !.tried = @ \cup {signin[s].code},
                           !.code = NoCode, !.late = late]
        /\ \A x \in SignIns : x # s => signin'[x] = signin[x]
    BY <1>0, <1>5 DEF TypeInv, Typed, SignIn
  <2>2. late \in BOOLEAN /\ (late <=> ~(now < signin[s].deadline))
    BY <1>0, NowTyped, SignInTyped
  <2> HIDE DEF late
  <2>3. /\ signin'[s].gmail = signin[s].gmail /\ signin'[s].began = signin[s].began
        /\ signin'[s].issued = signin[s].issued /\ signin'[s].deadline = signin[s].deadline
        /\ signin'[s].tried = signin[s].tried \cup {signin[s].code}
        /\ signin'[s].outcome = signin[s].outcome /\ signin'[s].late = late
        /\ signin'[s].pc = "look"
    BY <1>0, <2>1, SignInTyped DEF SignIn
  <2>4. signin'[s].pc \in Seeking
    BY <2>3 DEF Seeking
  <2>5. GmailLook(s)'
    BY <1>0, <2>2, <2>3 DEF GmailLook
  <2>6. Safe(s)'
    <3> SUFFICES ASSUME s \in due \ hurt PROVE InHand(s)' /\ InInbox(s)' /\ ~Missed(s)'
      BY <1>0 DEF Safe
    <3>1. InHand(s) /\ InInbox(s) /\ Times(s)
      BY <1>0 DEF Safe, TimeInv, Paced
    <3>2. Submitting(s) => s \in signin'[s].tried
      BY <2>3 DEF Submitting
    <3>3. Underway(s) => Underway(s)'
      BY <1>0, <1>1 DEF Underway, Handing, Stored
    <3>4. ~Missed(s)'
      BY <1>0, <2>3, <3>1 DEF Missed, GivenUp, Times
    <3>5. InHand(s)'
      BY <1>0, <1>1, <2>2, <2>3, <3>1, <3>2, <3>3 DEF InHand
    <3>6. InInbox(s)'
      BY <1>0, <1>1, <1>5, <2>3, <3>1, <3>2 DEF InInbox
    <3> QED BY <3>4, <3>5, <3>6
  <2>7. /\ \A c \in calls' : c \in calls
        /\ \A c \in calls : c \in calls'
    BY <1>0
  <2> QED BY <1>0, <1>1, <1>5, <2>1, <2>3, <2>4, <2>5, <2>6, <2>7, SeekingCodes
<1> QED BY <1>4, <1>5 DEF Submit, SignedIn

LEMMA ReportCodes ==
  ASSUME CodeInv, TimeInv', NEW s \in SignIns, Report(s)
  PROVE  CodeInv'
<1>0. /\ TimeInv /\ TypeInv /\ Watched(s) /\ Safe(s) /\ signin[s].pc = "report"
      /\ now' = now /\ address' = address /\ waiters' = waiters /\ mails' = mails /\ mailed' = mailed
      /\ due' = due /\ inbox' = inbox /\ hurt' = hurt /\ calls' = calls
  BY DEF CodeInv, TimeInv, Report, At, Student, Edge
<1>1. /\ signin'[s].pc \in Ended
      /\ signin'[s].began = signin[s].began \/ signin'[s].began = 0
      /\ \/ signin'[s].outcome = "none"
         \/ /\ signin'[s].outcome = signin[s].outcome /\ signin'[s].late = signin[s].late
            /\ signin'[s].tried = signin[s].tried /\ signin'[s].gmail = signin[s].gmail
      /\ \A x \in SignIns : x # s => signin'[x] = signin[x]
  <2>1. CASE signin' = [signin EXCEPT ![s] = [Idle EXCEPT !.pc = "over"]]
    <3>1. /\ signin'[s] = [Idle EXCEPT !.pc = "over"]
          /\ \A x \in SignIns : x # s => signin'[x] = signin[x]
      BY <1>0, <2>1 DEF TypeInv, Typed
    <3> QED BY <3>1 DEF Idle, Ended
  <2>2. CASE signin' = [signin EXCEPT ![s].reports = @ + 1]
    <3>1. /\ signin'[s] = [signin[s] EXCEPT !.reports = @ + 1]
          /\ \A x \in SignIns : x # s => signin'[x] = signin[x]
      BY <1>0, <2>2 DEF TypeInv, Typed
    <3> QED BY <1>0, <3>1, SignInTyped DEF SignIn, Ended
  <2> QED BY <2>1, <2>2 DEF Report
<1>2. signin'[s].pc \notin Seeking /\ signin'[s].pc # "idle" /\ signin'[s].pc \notin {"vtop", "register", "look"}
  BY <1>1 DEF Seeking, Ended
<1>3. WaiterTimes(s)'
  BY <1>0, <1>1, <1>2, WaiterTimesStay
<1>4. Watched(s)'
  BY <1>2, <1>3 DEF Watched, Registration, Reached, GmailLook
<1>5. Safe(s)'
  BY <1>0, <1>1, <1>2 DEF Safe, InHand, InInbox, Missed, GivenUp
<1>6. Mailed'
  BY <1>0, <1>1, <1>2, AlwaysMailed, MailedStays
<1>7. (\A c \in calls' : c \in calls) /\ (\A c \in calls : c \in calls') /\ mails \subseteq mails' /\ hurt \subseteq hurt'
  BY <1>0
<1> QED BY <1>0, <1>1, <1>4, <1>5, <1>6, <1>7, AlwaysMailed, SignInCodes

(* A step of the edge, which the sign-ins do not see.                      *)
LEMMA EdgeCodes ==
  ASSUME CodeInv, TimeInv', UNCHANGED signin, now' = now,
         \A s \in SignIns : WaiterTimes(s)' /\ Registration(s)' /\ Safe(s)',
         \A c \in calls' : Asleep(c)', Mailed'
  PROVE  CodeInv'
<1>1. ASSUME NEW s \in SignIns PROVE GmailLook(s)'
  BY DEF CodeInv, Watched, GmailLook
<1> QED BY <1>1 DEF CodeInv, Watched

(* What a step of the edge has to keep for a code that came.               *)
LEMMA SafeStays ==
  ASSUME CodeInv, UNCHANGED signin, NEW s \in SignIns, s \in due \ hurt,
         \A i \in DOMAIN inbox : \E j \in DOMAIN inbox' : inbox'[j].code = inbox[i].code,
         InHand(s)'
  PROVE  Safe(s)'
<1>1. InInbox(s) /\ ~Missed(s)
  BY DEF CodeInv, Safe
<1>2. ~Missed(s)'
  BY <1>1 DEF Missed, GivenUp
<1>3. InInbox(s)'
  BY <1>1 DEF InInbox, Submitting
<1> QED BY <1>2, <1>3 DEF Safe

LEMMA SameMails ==
  ASSUME CodeInv, UNCHANGED <<signin, mails, inbox, mailed>>, due' \subseteq due
  PROVE  Mailed'
BY DEF CodeInv, Mailed, MailTimes

(* A call is answered by the edge, or sleeps.                              *)
LEMMA LooksAtCodes ==
  ASSUME CodeInv, TimeInv', NEW c \in calls, NEW w \in {NoWaiter} \cup Waiter, NEW until \in Nat,
         c.pc # "answered", LooksAt(c, w, until),
         UNCHANGED <<now, Student, mails, inbox, mailed, Engine>>,
         \/ w = waiters[c.of]
         \/ /\ waiters[c.of] = NoWaiter /\ w # NoWaiter /\ w.results = << >>
            /\ w.since = c.since /\ w.expires = now + Ttl,
         ~c.cut /\ signin[c.of].pc = "register" => w # NoWaiter
  PROVE  CodeInv'
<1>0. /\ TimeInv /\ TypeInv /\ CallTimes(c) /\ c \in Call /\ c.of \in SignIns /\ now \in Nat
      /\ Times(c.of) /\ Asleep(c) /\ waiters \in [SignIns -> {NoWaiter} \cup Waiter]
  BY CallTyped, NowTyped DEF CodeInv, TimeInv, Paced, TypeInv, Typed
<1>1. /\ now' = now /\ address' = address /\ mails' = mails /\ inbox' = inbox /\ mailed' = mailed
      /\ signin' = signin /\ due' = due /\ hurt' = hurt
  BY DEF Student, Engine
<1>2. CASE w # NoWaiter /\ w.results # << >>
  <2>1. /\ w = waiters[c.of] /\ w \in Waiter /\ w.results \in Seq(Codes)
        /\ Head(w.results) \in Codes /\ Tail(w.results) \in Seq(Codes)
    BY <1>2, HeadTailProperties DEF Waiter
  <2>2. PICK v : v = [w EXCEPT !.results = Tail(w.results)]
    OBVIOUS
  <2>3. /\ v \in Waiter /\ v # NoWaiter /\ v.since = w.since /\ v.expires = w.expires
        /\ v.results = Tail(w.results)
    <3>1. v \in Waiter /\ v.since = w.since /\ v.expires = w.expires /\ v.results = Tail(w.results)
      BY <2>1, <2>2 DEF Waiter
    <3> QED BY <3>1, WaiterOther
  <2>4. waiters'[c.of] = v /\ \A x \in SignIns : x # c.of => waiters'[x] = waiters[x]
    BY <1>0, <1>2, <2>1, <2>2 DEF LooksAt
  <2>5. PICK code : code = Head(w.results)
    OBVIOUS
  <2>6. PICK d : d = [c EXCEPT !.pc = "answered", !.answer = code]
    OBVIOUS
  <2>7. /\ d.of = c.of /\ d.cut = c.cut /\ d.pc = "answered" /\ d.answer = code
        /\ calls' = (calls \ {c}) \cup (IF c.cut THEN {} ELSE {d})
    BY <1>0, <1>2, <2>5, <2>6 DEF LooksAt, Answers, Call
  <2>8. ASSUME NEW s \in SignIns PROVE WaiterTimes(s)' /\ Registration(s)' /\ Safe(s)'
    <3>0. WaiterTimes(s) /\ Registration(s) /\ Safe(s)
      BY DEF CodeInv, Watched
    <3>1. WaiterTimes(s)'
      BY <1>1, <2>1, <2>3, <2>4, <3>0, WaiterOther DEF WaiterTimes
    <3>2. waiters[s] # NoWaiter => waiters'[s] # NoWaiter
      BY <2>3, <2>4
    <3>3. Registration(s)'
      <4>1. CASE s = c.of
        BY <2>3, <2>4, <4>1 DEF Registration
      <4>2. CASE s # c.of
        <5>1. Live(s)' = Live(s)
          BY <2>7, <4>2 DEF Live
        <5> QED BY <1>1, <3>0, <3>2, <5>1 DEF Registration, Reached
      <4> QED BY <4>1, <4>2
    <3>4. ASSUME s \in due \ hurt PROVE InHand(s)'
      <4>1. InHand(s)
        BY <3>0, <3>4 DEF Safe
      <4>2. ASSUME Stored(s) PROVE Underway(s)'
        <5>1. CASE s # c.of
          BY <2>4, <4>2, <5>1 DEF Underway, Stored
        <5>2. CASE s = c.of
          <6>1. PICK i \in DOMAIN w.results : w.results[i] = s
            BY <2>1, <4>2, <5>2 DEF Stored
          <6>2. ~c.cut
            BY <1>0, <3>4, <5>2 DEF Asleep
          <6>3. CASE i = 1
            <7>1. d.answer = s /\ d \in calls' /\ d \in Live(s)'
              BY <2>1, <2>5, <2>7, <5>2, <6>1, <6>2, <6>3 DEF Live
            <7> QED BY <2>7, <7>1 DEF Underway, Answered
          <6>4. CASE i # 1
            <7>1. i - 1 \in DOMAIN Tail(w.results) /\ Tail(w.results)[i - 1] = s
              <8>1. /\ Len(Tail(w.results)) = Len(w.results) - 1
                    /\ \A k \in 1..Len(Tail(w.results)) : Tail(w.results)[k] = w.results[k + 1]
                BY <1>2, <2>1, HeadTailProperties
              <8>2. /\ DOMAIN w.results = 1..Len(w.results) /\ Len(w.results) \in Nat
                    /\ DOMAIN Tail(w.results) = 1..Len(Tail(w.results))
                BY <2>1, LenProperties
              <8>3. i - 1 \in 1..Len(Tail(w.results)) /\ (i - 1) + 1 = i
                BY <6>1, <6>4, <8>1, <8>2
              <8> QED BY <6>1, <8>1, <8>2, <8>3
            <7>2. Stored(s)'
              BY <2>3, <2>4, <5>2, <7>1 DEF Stored
            <7> QED BY <7>2 DEF Underway
          <6> QED BY <6>3, <6>4
        <5> QED BY <5>1, <5>2
      <4>3. Underway(s) => Underway(s)'
        <5>1. (\E m \in mails : Handing(s, m)) => Underway(s)'
          BY <1>1 DEF Underway, Handing
        <5>2. (\E x \in Live(s) : Answered(s, x)) => Underway(s)'
          BY <2>7 DEF Underway, Answered, Live
        <5> QED BY <4>2, <5>1, <5>2 DEF Underway
      <4> QED BY <1>1, <3>2, <4>1, <4>3 DEF InHand, Submitting
    <3>5. Safe(s)'
      <4>1. CASE s \in due \ hurt
        BY <1>1, <3>4, <4>1, SafeStays
      <4>2. CASE s \notin due \ hurt
        BY <1>1, <4>2 DEF Safe
      <4> QED BY <4>1, <4>2
    <3> QED BY <3>1, <3>3, <3>5
  <2>9. ASSUME NEW x \in calls' PROVE Asleep(x)'
    <3>1. CASE x \in calls
      <4>1. Asleep(x)
        BY <3>1 DEF CodeInv
      <4>2. x.of # c.of => waiters'[x.of] = waiters[x.of]
        BY <1>0, <2>4, <3>1, CallTyped
      <4> QED BY <1>1, <1>2, <2>1, <4>1, <4>2 DEF Asleep
    <3>2. CASE x \notin calls
      BY <2>7, <3>2 DEF Asleep
    <3> QED BY <3>1, <3>2
  <2> QED BY <1>1, <2>8, <2>9, EdgeCodes, SameMails
<1>3. CASE ~(w # NoWaiter /\ w.results # << >>)
  <2>1. waiters'[c.of] = w /\ \A x \in SignIns : x # c.of => waiters'[x] = waiters[x]
    BY <1>0, <1>3 DEF LooksAt
  <2>2. /\ \A x \in calls : x # c => x \in calls'
        /\ \A x \in calls' : x \notin calls =>
             /\ x.of = c.of /\ x.cut = c.cut
             /\ c.cut => x.pc # "answered"
    <3>1. CASE Over(until)
      <4>1. Answers(c, NoCode)
        BY <1>3, <3>1 DEF LooksAt
      <4>2. PICK d : d = [c EXCEPT !.pc = "answered", !.answer = NoCode]
        OBVIOUS
      <4>3. d.of = c.of /\ d.cut = c.cut /\ d.pc = "answered"
        BY <1>0, <4>2 DEF Call
      <4>4. calls' = (calls \ {c}) \cup (IF c.cut THEN {} ELSE {d})
        BY <4>1, <4>2 DEF Answers
      <4> QED BY <4>3, <4>4
    <3>2. CASE ~Over(until)
      <4>1. PICK d : d = [c EXCEPT !.pc = "parked", !.until = until, !.woken = FALSE]
        OBVIOUS
      <4>2. d.of = c.of /\ d.cut = c.cut /\ d.pc = "parked"
        BY <1>0, <4>1 DEF Call
      <4>3. calls' = (calls \ {c}) \cup {d}
        BY <1>3, <3>2, <4>1 DEF LooksAt
      <4> QED BY <4>2, <4>3
    <3> QED BY <3>1, <3>2
  <2>3. ASSUME NEW s \in SignIns PROVE WaiterTimes(s)' /\ Registration(s)' /\ Safe(s)'
    <3>0. WaiterTimes(s) /\ Registration(s) /\ Safe(s)
      BY DEF CodeInv, Watched
    <3>1. waiters[s] # NoWaiter => waiters'[s] = waiters[s]
      BY <2>1
    <3>2. WaiterTimes(s)'
      <4>1. CASE waiters'[s] = waiters[s]
        BY <1>1, <3>0, <4>1 DEF WaiterTimes
      <4>2. CASE waiters'[s] # waiters[s]
        <5>1. /\ s = c.of /\ waiters'[s] = w /\ w # NoWaiter
              /\ w.since = c.since /\ w.expires = now + Ttl
          BY <2>1, <4>2
        <5>2. signin[s].began \in Nat /\ signin[s].began <= now
          BY <1>0, <5>1, SignInTyped DEF Times
        <5>3. signin[s].began + Ttl <= now + Ttl
          BY <1>0, <5>2, Times0
        <5> QED BY <1>0, <1>1, <5>1, <5>3 DEF WaiterTimes, CallTimes
      <4> QED BY <4>1, <4>2
    <3>3. Registration(s)'
      <4>1. CASE Reached(s)
        BY <1>1, <3>0, <3>1, <4>1 DEF Registration
      <4>2. CASE ~Reached(s)
        <5> SUFFICES ASSUME Reached(s)' PROVE waiters'[s] # NoWaiter
          BY DEF Registration
        <5>1. PICK x \in Live(s)' : signin[s].pc = "register" /\ x.pc = "answered"
          BY <1>1, <4>2 DEF Reached
        <5>2. x \in calls' /\ x.of = s /\ ~x.cut /\ x \notin calls
          BY <4>2, <5>1 DEF Reached, Live
        <5>3. x.of = c.of /\ x.cut = c.cut
          BY <2>2, <5>2
        <5> QED BY <2>1, <5>1, <5>2, <5>3
      <4> QED BY <4>1, <4>2
    <3>4. ASSUME s \in due \ hurt PROVE InHand(s)'
      <4>1. InHand(s)
        BY <3>0, <3>4 DEF Safe
      <4>2. waiters[s] # NoWaiter /\ Underway(s) => Underway(s)'
        <5>1. \A x \in Live(s) : Answered(s, x) => x \in Live(s)'
          BY <2>2 DEF Answered, Live
        <5> QED BY <1>1, <3>1, <5>1 DEF Underway, Handing, Stored, Answered
      <4> QED BY <1>1, <3>1, <4>1, <4>2 DEF InHand, Submitting
    <3>5. Safe(s)'
      <4>1. CASE s \in due \ hurt
        BY <1>1, <3>4, <4>1, SafeStays
      <4>2. CASE s \notin due \ hurt
        BY <1>1, <4>2 DEF Safe
      <4> QED BY <4>1, <4>2
    <3> QED BY <3>2, <3>3, <3>5
  <2>4. ASSUME NEW x \in calls' PROVE Asleep(x)'
    <3>1. CASE x \in calls
      <4>1. Asleep(x) /\ x.of \in SignIns
        BY <1>0, <3>1, CallTyped DEF CodeInv
      <4>2. waiters'[x.of] # NoWaiter =>
              (x.of # c.of /\ waiters'[x.of] = waiters[x.of]) \/ waiters'[x.of].results = << >>
        BY <1>3, <2>1, <4>1
      <4> QED BY <1>1, <4>1, <4>2 DEF Asleep
    <3>2. CASE x \notin calls
      <4>1. /\ x.of = c.of /\ x.cut = c.cut
            /\ x.cut => x.pc # "answered"
        BY <2>2, <3>2
      <4> QED BY <1>0, <1>1, <1>3, <2>1, <4>1 DEF Asleep
    <3> QED BY <3>1, <3>2
  <2> QED BY <1>1, <2>3, <2>4, EdgeCodes, SameMails
<1> QED BY <1>2, <1>3

LEMMA AwaitCodeCodes ==
  ASSUME CodeInv, TimeInv', NEW c \in calls, AwaitCode(c)
  PROVE  CodeInv'
<1>0. /\ TimeInv /\ TypeInv /\ c.pc = "asked" /\ c \in Call /\ c.of \in SignIns /\ now \in Nat
      /\ c.wait \in Nat
      /\ UNCHANGED <<now, Student, mails, inbox, mailed, Engine>>
  BY CallTyped, NowTyped DEF CodeInv, TimeInv, AwaitCode
<1>1. CASE address
  <2>1. LooksAt(c, WaiterOf(c), now + c.wait)
    BY <1>1 DEF AwaitCode, WaiterOf
  <2>2. WaiterOf(c) \in Waiter /\ WaiterOf(c) # NoWaiter /\ now + c.wait \in Nat
    BY <1>0, WaiterOfTyped, WaiterOther
  <2>3. \/ WaiterOf(c) = waiters[c.of]
        \/ /\ waiters[c.of] = NoWaiter /\ WaiterOf(c).results = << >>
           /\ WaiterOf(c).since = c.since /\ WaiterOf(c).expires = now + Ttl
    BY DEF WaiterOf
  <2> QED BY <1>0, <2>1, <2>2, <2>3, LooksAtCodes
<1>2. CASE ~address
  <2>0. /\ Answers(c, NoAddress) /\ now' = now /\ ~address' /\ waiters' = waiters /\ mails' = mails
        /\ inbox' = inbox /\ mailed' = mailed /\ signin' = signin /\ due' = due /\ hurt' = hurt
    BY <1>0, <1>2 DEF AwaitCode, Student, Engine
  <2>1. PICK d : d = [c EXCEPT !.pc = "answered", !.answer = NoAddress]
    OBVIOUS
  <2>2. d.of = c.of /\ d.cut = c.cut /\ d.pc = "answered"
    BY <1>0, <2>1 DEF Call
  <2>3. calls' = (calls \ {c}) \cup (IF c.cut THEN {} ELSE {d})
    BY <2>0, <2>1 DEF Answers
  <2>4. ASSUME NEW x \in calls' PROVE Asleep(x)'
    <3>1. CASE x \in calls
      BY <2>0, <3>1 DEF CodeInv, Asleep
    <3>2. CASE x \notin calls
      BY <2>2, <2>3, <3>2 DEF Asleep
    <3> QED BY <3>1, <3>2
  <2>5. ASSUME NEW s \in SignIns PROVE WaiterTimes(s)' /\ Registration(s)' /\ Safe(s)'
    <3>1. WaiterTimes(s) /\ Safe(s)
      BY DEF CodeInv, Watched
    <3>2. s \in due \ hurt => InHand(s)'
      BY <1>2, <2>0, <3>1 DEF Safe, InHand
    <3>3. Safe(s)'
      <4>1. CASE s \in due \ hurt
        BY <2>0, <3>2, <4>1, SafeStays
      <4>2. CASE s \notin due \ hurt
        BY <2>0, <4>2 DEF Safe
      <4> QED BY <4>1, <4>2
    <3> QED BY <2>0, <3>1, <3>3 DEF WaiterTimes, Registration
  <2> QED BY <2>0, <2>4, <2>5, EdgeCodes, SameMails
<1> QED BY <1>1, <1>2

LEMMA AwakeCodes ==
  ASSUME CodeInv, TimeInv', NEW c \in calls, Awake(c)
  PROVE  CodeInv'
<1>0. TimeInv /\ TypeInv /\ CallTimes(c) /\ c.of \in SignIns /\ c.until \in Nat
  BY CallTyped DEF CodeInv, TimeInv, Paced
<1>1. /\ c.pc = "parked" /\ LooksAt(c, waiters[c.of], c.until)
      /\ UNCHANGED <<now, Student, mails, inbox, mailed, Engine>>
  BY DEF Awake, MayLook
<1>2. waiters[c.of] \in {NoWaiter} \cup Waiter
  BY <1>0, WaiterTyped
<1>3. ~c.cut => signin[c.of].pc # "register"
  BY <1>0, <1>1 DEF CallTimes
<1> QED BY <1>0, <1>1, <1>2, <1>3, LooksAtCodes

(* A waiter that expired is of no use to a sign-in any more.               *)
LEMMA DropsWaiters ==
  ASSUME CodeInv, UNCHANGED <<signin, calls>>, now' = now, address' = address, hurt \subseteq hurt',
         NEW s \in SignIns, waiters'[s] = waiters[s] \/ (waiters'[s] = NoWaiter /\ Expired(s))
  PROVE  WaiterTimes(s)' /\ Registration(s)'
<1>1. WaiterTimes(s) /\ Registration(s) /\ TimeInv /\ TypeInv /\ now \in Nat
  BY NowTyped DEF CodeInv, Watched, TimeInv
<1>2. Expired(s) => ~(now < signin[s].began + Ttl)
  BY <1>1, SignInTyped, WaiterTyped, Times0 DEF WaiterTimes, Expired
<1>3. WaiterTimes(s)'
  BY <1>1 DEF WaiterTimes
<1>4. Live(s)' = Live(s)
  BY DEF Live
<1>5. Registration(s)'
  BY <1>1, <1>2, <1>4 DEF Registration, Reached
<1> QED BY <1>3, <1>5

LEMMA KeptIs ==
  ASSUME NEW s \in SignIns
  PROVE  Kept[s] = waiters[s] \/ (Kept[s] = NoWaiter /\ Expired(s))
BY DEF Kept

LEMMA AsleepStays ==
  ASSUME CodeInv, UNCHANGED calls, hurt \subseteq hurt',
         \A s \in SignIns : waiters'[s] = waiters[s] \/ waiters'[s] = NoWaiter
  PROVE  \A c \in calls' : Asleep(c)'
<1> SUFFICES ASSUME NEW c \in calls PROVE Asleep(c)'
  OBVIOUS
<1>1. Asleep(c) /\ c.of \in SignIns
  BY CallTyped DEF CodeInv, TimeInv
<1> QED BY <1>1 DEF Asleep

(* Mails move on, or come to the inbox.                                    *)
LEMMA MailsMove ==
  ASSUME CodeInv, UNCHANGED <<signin, mailed>>, due' \subseteq mailed,
         \A m \in mails' : \E k \in mails : m.code = k.code /\ m.sentAt = k.sentAt,
         \A j \in DOMAIN inbox' :
           \/ \E i \in DOMAIN inbox : inbox'[j] = inbox[i]
           \/ \E m \in mails : inbox'[j].code = m.code /\ inbox'[j].at = now
  PROVE  Mailed'
<1>0. Mailed /\ TimeInv
  BY DEF CodeInv
<1>1. ASSUME NEW m \in mails' PROVE MailTimes(m)'
  <2>1. PICK k \in mails : m.code = k.code /\ m.sentAt = k.sentAt
    OBVIOUS
  <2>2. MailTimes(k)
    BY <1>0 DEF Mailed
  <2> QED BY <2>1, <2>2 DEF MailTimes
<1>2. ASSUME NEW j \in DOMAIN inbox'
      PROVE  /\ inbox'[j].code \in mailed
             /\ inbox'[j].code \in SignIns /\ signin'[inbox'[j].code].pc \in Seeking
                  => signin'[inbox'[j].code].issued <= inbox'[j].at
  <2>1. ASSUME NEW i \in DOMAIN inbox, inbox'[j] = inbox[i]
        PROVE  /\ inbox'[j].code \in mailed
               /\ inbox'[j].code \in SignIns /\ signin'[inbox'[j].code].pc \in Seeking
                    => signin'[inbox'[j].code].issued <= inbox'[j].at
    BY <1>0, <2>1 DEF Mailed
  <2>2. ASSUME NEW m \in mails, inbox'[j].code = m.code, inbox'[j].at = now
        PROVE  /\ inbox'[j].code \in mailed
               /\ inbox'[j].code \in SignIns /\ signin'[inbox'[j].code].pc \in Seeking
                    => signin'[inbox'[j].code].issued <= inbox'[j].at
    <3>1. MailTimes(m)
      BY <1>0 DEF Mailed
    <3>2. m.code \in SignIns => Times(m.code)
      BY <1>0 DEF TimeInv, Paced
    <3> QED BY <2>2, <3>1, <3>2 DEF MailTimes, Times
  <2> QED BY <2>1, <2>2
<1> QED BY <1>0, <1>1, <1>2 DEF Mailed

LEMMA NobodyIsSent == \A s \in SignIns : \A T : s \in T => T # {"sent"}
BY ChallengesAssumption

LEMMA ArrivesCodes ==
  ASSUME CodeInv, TimeInv', NEW m \in mails, Arrives(m)
  PROVE  CodeInv'
<1> DEFINE todo == IF address THEN {s \in SignIns : Wants(Kept[s], m.sentAt)} ELSE {}
<1>0. /\ TimeInv /\ TypeInv /\ Mailed /\ MailTimes(m) /\ m \in Mail /\ now \in Nat
      /\ m.sentAt \in Nat /\ m.code \in Codes
  BY NowTyped DEF CodeInv, Mailed, TimeInv, TypeInv, Typed, Mail
<1>1. /\ now' = now /\ address' = address /\ grant' = grant /\ mailed' = mailed /\ calls' = calls
      /\ signin' = signin /\ hurt' = hurt /\ m.todo = {"sent"}
      /\ waiters' = (IF address THEN Kept ELSE waiters)
      /\ due' = (due \ {s \in SignIns : address /\ Expired(s)})
                  \cup {s \in SignIns : s = m.code /\ InTime(s)}
  BY DEF Arrives, Student
<1>2. \E again \in BOOLEAN :
        mails' = (IF again THEN mails ELSE mails \ {m}) \cup
                   (IF todo = {} THEN {} ELSE {[m EXCEPT !.todo = todo]})
  BY DEF Arrives
<1>3. inbox' = IF grant /\ \A i \in DOMAIN inbox : inbox[i].code # m.code
               THEN Append(inbox, [code |-> m.code, at |-> now]) ELSE inbox
  BY DEF Arrives
<1> HIDE DEF todo
<1>4. PICK d : d = [m EXCEPT !.todo = todo]
  OBVIOUS
<1>5. d.code = m.code /\ d.sentAt = m.sentAt /\ d.todo = todo
  BY <1>0, <1>4 DEF Mail
<1>6. /\ \A k \in mails : k # m => k \in mails'
      /\ \A k \in mails' : k \in mails \/ k = d
      /\ todo # {} => d \in mails'
  BY <1>2, <1>4
<1>7. /\ \A i \in DOMAIN inbox : \E j \in DOMAIN inbox' : inbox'[j].code = inbox[i].code
      /\ \A j \in DOMAIN inbox' :
           \/ \E i \in DOMAIN inbox : inbox'[j] = inbox[i]
           \/ inbox'[j].code = m.code /\ inbox'[j].at = now
      /\ grant => \E j \in DOMAIN inbox' : inbox'[j].code = m.code
  <2>1. CASE inbox' = inbox /\ (grant => \E i \in DOMAIN inbox : inbox[i].code = m.code)
    BY <2>1
  <2>2. CASE inbox' = Append(inbox, [code |-> m.code, at |-> now])
    <3>1. PICK e : e = [code |-> m.code, at |-> now]
      OBVIOUS
    <3>2. e \in [code: Codes, at: Nat] /\ e.code = m.code /\ e.at = now
      BY <1>0, <3>1
    <3>3. inbox \in Seq([code: Codes, at: Nat])
      BY <1>0 DEF TypeInv, Typed
    <3>4. /\ Len(inbox) \in Nat /\ DOMAIN inbox = 1..Len(inbox)
          /\ DOMAIN inbox' = 1..Len(inbox) + 1 /\ inbox'[Len(inbox) + 1] = e
          /\ \A i \in 1..Len(inbox) : inbox'[i] = inbox[i]
      <4>1. inbox' = Append(inbox, e)
        BY <2>2, <3>1
      <4>2. /\ Append(inbox, e) \in Seq([code: Codes, at: Nat])
            /\ Len(Append(inbox, e)) = Len(inbox) + 1
            /\ \A i \in 1..Len(inbox) : Append(inbox, e)[i] = inbox[i]
            /\ Append(inbox, e)[Len(inbox) + 1] = e
        BY <3>2, <3>3, AppendProperties
      <4> QED BY <3>3, <4>1, <4>2, LenProperties
    <3>5. Len(inbox) + 1 \in DOMAIN inbox' /\ \A i \in DOMAIN inbox : i \in DOMAIN inbox'
      BY <3>4
    <3>6. ASSUME NEW j \in DOMAIN inbox' PROVE j \in 1..Len(inbox) \/ j = Len(inbox) + 1
      BY <3>4
    <3> QED BY <3>2, <3>4, <3>5, <3>6
  <2> QED BY <1>3, <2>1, <2>2
<1>8. \A s \in SignIns : waiters'[s] = waiters[s] \/ (waiters'[s] = NoWaiter /\ Expired(s))
  BY <1>1, KeptIs
<1>9. ASSUME NEW s \in SignIns, s \in due' \ hurt PROVE InHand(s)' /\ InInbox(s)' /\ ~Missed(s)'
  <2>1. CASE s \in due /\ ~(address /\ Expired(s))
    <3>1. InHand(s) /\ InInbox(s) /\ ~Missed(s)
      BY <1>9, <2>1 DEF CodeInv, Safe
    <3>2. waiters'[s] = waiters[s]
      BY <1>1, <2>1, KeptIs
    <3>3. Underway(s) => Underway(s)'
      <4>1. \A k \in mails : Handing(s, k) => k \in mails'
        BY <1>1, <1>6 DEF Handing
      <4> QED BY <1>1, <3>2, <4>1 DEF Underway, Handing, Stored, Answered, Live
    <3>4. InHand(s)'
      BY <1>1, <3>1, <3>2, <3>3 DEF InHand, Submitting
    <3>5. InInbox(s)'
      BY <1>1, <1>7, <3>1 DEF InInbox, Submitting
    <3> QED BY <1>1, <3>1, <3>4, <3>5 DEF Missed, GivenUp
  <2>2. CASE s = m.code /\ InTime(s)
    <3>0. signin[s].pc \in Seeking /\ Times(s) /\ Watched(s)
      BY <1>0, <2>2 DEF InTime, Seeking, TimeInv, Paced, CodeInv
    <3>1. ~Missed(s)'
      BY <1>1, <3>0 DEF Missed, GivenUp, Times, Seeking
    <3>2. InInbox(s)'
      BY <1>1, <1>7, <2>2 DEF InInbox, InTime
    <3>3. ASSUME ~signin[s].gmail PROVE InHand(s)'
      <4>1. address /\ now < signin[s].deadline /\ now < signin[s].began + Ttl
        BY <2>2, <3>3 DEF InTime
      <4>2. waiters[s] # NoWaiter /\ s \notin hurt
        BY <1>9, <3>0, <3>3, <4>1 DEF Watched, Registration, Reached
      <4>3. /\ waiters[s].since \in Nat /\ waiters[s].expires \in Nat
            /\ signin[s].issued \in Nat /\ signin[s].began \in Nat
        BY <1>0, <4>2, WaiterTyped, SignInTyped
      <4>4. now < waiters[s].expires
        BY <1>0, <3>0, <4>1, <4>2, <4>3, Times0 DEF Watched, WaiterTimes
      <4>5. m.sentAt >= waiters[s].since
        BY <1>0, <2>2, <3>0, <4>2, <4>3, Times0 DEF Watched, WaiterTimes, MailTimes
      <4>6. ~Expired(s)
        BY <1>0, <4>3, <4>4 DEF Expired
      <4>7. Kept[s] = waiters[s]
        BY <4>6, KeptIs
      <4>8. s \in todo
        BY <4>1, <4>2, <4>4, <4>5, <4>7 DEF Wants, todo
      <4>9. d \in mails' /\ Handing(s, d)
        BY <1>5, <1>6, <2>2, <4>8, NobodyIsSent DEF Handing
      <4>10. Underway(s)'
        BY <4>9 DEF Underway, Handing
      <4> QED BY <1>1, <4>1, <4>2, <4>7, <4>10 DEF InHand
    <3>4. InHand(s)'
      BY <1>1, <3>3 DEF InHand
    <3> QED BY <3>1, <3>2, <3>4
  <2> QED BY <1>1, <1>9, <2>1, <2>2
<1>10. ASSUME NEW s \in SignIns PROVE WaiterTimes(s)' /\ Registration(s)' /\ Safe(s)'
  BY <1>1, <1>8, <1>9, DropsWaiters DEF Safe
<1>11. Mailed'
  <2>1. due' \subseteq mailed
    BY <1>0, <1>1 DEF Mailed, MailTimes
  <2>2. \A x \in mails' : \E k \in mails : x.code = k.code /\ x.sentAt = k.sentAt
    BY <1>5, <1>6
  <2> QED BY <1>1, <1>7, <2>1, <2>2, MailsMove
<1> QED BY <1>1, <1>8, <1>10, <1>11, AsleepStays, EdgeCodes

LEMMA HandCodes ==
  ASSUME CodeInv, TimeInv', NEW m \in mails, Hand(m)
  PROVE  CodeInv'
<1>0. /\ TimeInv /\ TypeInv /\ m \in Mail /\ m.code \in Codes /\ now' = now /\ address' = address
      /\ inbox' = inbox /\ mailed' = mailed /\ signin' = signin /\ due' = due /\ hurt' = hurt
      /\ waiters \in [SignIns -> {NoWaiter} \cup Waiter]
  BY DEF CodeInv, TimeInv, TypeInv, Typed, Mail, Hand, Student, Engine
<1>1. PICK s \in m.todo \cap SignIns :
        /\ Handed(m, s) /\ Stores(m, s)
        /\ calls' = IF waiters[s] = NoWaiter THEN calls
                    ELSE {IF c.of = s /\ c.pc = "parked" THEN [c EXCEPT !.woken = TRUE] ELSE c : c \in calls}
  BY DEF Hand
<1>2. PICK k : k = [m EXCEPT !.todo = m.todo \ {s}]
  OBVIOUS
<1>3. k.code = m.code /\ k.sentAt = m.sentAt /\ k.todo = m.todo \ {s}
  BY <1>0, <1>2 DEF Mail
<1>4. /\ \A x \in mails : x # m => x \in mails'
      /\ \A x \in mails' : x \in mails \/ x = k
      /\ m.todo # {s} => k \in mails'
  BY <1>1, <1>2 DEF Handed
<1>5. /\ \A x \in calls : x.pc # "parked" => x \in calls'
      /\ \A x \in calls' : \/ x \in calls /\ (x.of = s /\ x.pc = "parked" => waiters[s] = NoWaiter)
                           \/ /\ x.woken /\ x.pc = "parked"
                              /\ \E c \in calls : x.of = c.of /\ x.cut = c.cut
  <2>1. CASE waiters[s] = NoWaiter
    BY <1>1, <2>1
  <2>2. CASE waiters[s] # NoWaiter
    <3>1. calls' = {IF c.of = s /\ c.pc = "parked" THEN [c EXCEPT !.woken = TRUE] ELSE c : c \in calls}
      BY <1>1, <2>2
    <3>2. ASSUME NEW x \in calls, x.pc # "parked" PROVE x \in calls'
      BY <3>1, <3>2
    <3>3. ASSUME NEW x \in calls'
          PROVE  \/ x \in calls /\ (x.of = s /\ x.pc = "parked" => waiters[s] = NoWaiter)
                 \/ /\ x.woken /\ x.pc = "parked"
                    /\ \E c \in calls : x.of = c.of /\ x.cut = c.cut
      <4>1. PICK c \in calls : x = IF c.of = s /\ c.pc = "parked" THEN [c EXCEPT !.woken = TRUE] ELSE c
        BY <3>1
      <4>2. c \in Call
        BY <1>0, CallTyped
      <4>3. CASE c.of = s /\ c.pc = "parked"
        <5>1. x = [c EXCEPT !.woken = TRUE]
          BY <4>1, <4>3
        <5>2. x.woken /\ x.pc = c.pc /\ x.of = c.of /\ x.cut = c.cut
          BY <4>2, <5>1 DEF Call
        <5> QED BY <4>3, <5>2
      <4> QED BY <4>1, <4>3
    <3> QED BY <3>2, <3>3
  <2> QED BY <2>1, <2>2
<1>6. /\ \A x \in SignIns : x # s \/ waiters[s] = NoWaiter => waiters'[x] = waiters[x]
      /\ waiters[s] # NoWaiter =>
           /\ waiters'[s] # NoWaiter /\ waiters'[s].since = waiters[s].since
           /\ waiters'[s].expires = waiters[s].expires
           /\ waiters'[s].results = Append(waiters[s].results, m.code)
  <2>1. CASE waiters[s] = NoWaiter
    BY <1>1, <2>1 DEF Stores
  <2>2. CASE waiters[s] # NoWaiter
    <3>1. PICK w : w = waiters[s]
      OBVIOUS
    <3>2. w \in Waiter /\ w.results \in Seq(Codes)
      BY <1>0, <2>2, <3>1 DEF Waiter
    <3>3. PICK v : v = [w EXCEPT !.results = Append(w.results, m.code)]
      OBVIOUS
    <3>4. Append(w.results, m.code) \in Seq(Codes)
      BY <1>0, <3>2, AppendProperties
    <3>5. /\ v \in Waiter /\ v.since = w.since /\ v.expires = w.expires
          /\ v.results = Append(w.results, m.code)
      BY <3>2, <3>3, <3>4 DEF Waiter
    <3>6. waiters' = [waiters EXCEPT ![s] = v]
      BY <1>0, <1>1, <2>2, <3>1, <3>3 DEF Stores
    <3> QED BY <1>0, <2>2, <3>1, <3>5, <3>6, WaiterOther
  <2> QED BY <2>1, <2>2
<1>7. ASSUME NEW x \in SignIns PROVE WaiterTimes(x)' /\ Registration(x)' /\ Safe(x)'
  <2>0. WaiterTimes(x) /\ Registration(x) /\ Safe(x)
    BY DEF CodeInv, Watched
  <2>1. waiters[x] # NoWaiter <=> waiters'[x] # NoWaiter
    BY <1>6
  <2>2. WaiterTimes(x)'
    BY <1>0, <1>6, <2>0 DEF WaiterTimes
  <2>3. Registration(x)'
    <3>1. Reached(x)' => Reached(x)
      BY <1>0, <1>5 DEF Reached, Live
    <3> QED BY <1>0, <2>0, <2>1, <3>1 DEF Registration
  <2>4. ASSUME x \in due \ hurt PROVE InHand(x)'
    <3>1. InHand(x)
      BY <2>0, <2>4 DEF Safe
    <3>2. ASSUME NEW n \in mails, Handing(x, n), waiters[x] # NoWaiter PROVE Underway(x)'
      <4>1. CASE n # m
        BY <1>4, <3>2, <4>1 DEF Underway, Handing
      <4>2. CASE n = m /\ x = s
        <5>1. waiters[s].results \in Seq(Codes)
          BY <1>0, <3>2, <4>2, WaiterTyped
        <5>2. m.code = x
          BY <3>2, <4>2 DEF Handing
        <5>3. /\ waiters'[x].results = Append(waiters[s].results, m.code)
              /\ Append(waiters[s].results, m.code) \in Seq(Codes)
              /\ Len(Append(waiters[s].results, m.code)) = Len(waiters[s].results) + 1
              /\ Append(waiters[s].results, m.code)[Len(waiters[s].results) + 1] = m.code
          BY <1>0, <1>6, <3>2, <4>2, <5>1, AppendProperties
        <5>4. /\ Len(waiters[s].results) \in Nat
              /\ DOMAIN waiters'[x].results = 1..Len(waiters[s].results) + 1
          BY <5>1, <5>3, LenProperties
        <5>5. Len(waiters[s].results) + 1 \in DOMAIN waiters'[x].results
          BY <5>4
        <5>6. Stored(x)'
          BY <5>2, <5>3, <5>5 DEF Stored
        <5> QED BY <5>6 DEF Underway
      <4>3. CASE n = m /\ x # s
        <5>1. x \in m.todo /\ m.code = x
          BY <3>2, <4>3 DEF Handing
        <5>2. k \in mails' /\ x \in k.todo /\ k.todo # {"sent"}
          BY <1>3, <1>4, <4>3, <5>1, NobodyIsSent
        <5> QED BY <1>3, <5>1, <5>2 DEF Underway, Handing
      <4> QED BY <4>1, <4>2, <4>3
    <3>3. ASSUME Stored(x), waiters[x] # NoWaiter PROVE Underway(x)'
      <4>1. CASE x # s
        BY <1>6, <3>3, <4>1 DEF Underway, Stored
      <4>2. CASE x = s
        <5>1. waiters[s].results \in Seq(Codes)
          BY <1>0, <3>3, <4>2, WaiterTyped
        <5>2. PICK i \in DOMAIN waiters[s].results : waiters[s].results[i] = x
          BY <3>3, <4>2 DEF Stored
        <5>3. i \in 1..Len(waiters[s].results) /\ Len(waiters[s].results) \in Nat
          BY <5>1, LenProperties
        <5>4. /\ waiters'[x].results = Append(waiters[s].results, m.code)
              /\ Append(waiters[s].results, m.code) \in Seq(Codes)
              /\ Len(Append(waiters[s].results, m.code)) = Len(waiters[s].results) + 1
              /\ Append(waiters[s].results, m.code)[i] = waiters[s].results[i]
          BY <1>0, <1>6, <3>3, <4>2, <5>1, <5>3, AppendProperties
        <5>5. DOMAIN waiters'[x].results = 1..Len(waiters[s].results) + 1
          BY <5>4, LenProperties
        <5>6. i \in DOMAIN waiters'[x].results
          BY <5>3, <5>5
        <5>7. Stored(x)'
          BY <5>2, <5>4, <5>6 DEF Stored
        <5> QED BY <5>7 DEF Underway
      <4> QED BY <4>1, <4>2
    <3>4. (\E c \in Live(x) : Answered(x, c)) => Underway(x)'
      BY <1>5 DEF Underway, Answered, Live
    <3>5. waiters[x] # NoWaiter /\ Underway(x) => Underway(x)'
      BY <3>2, <3>3, <3>4 DEF Underway
    <3> QED BY <1>0, <2>1, <3>1, <3>5 DEF InHand, Submitting
  <2>5. Safe(x)'
    <3>1. CASE x \in due \ hurt
      BY <1>0, <2>4, <3>1, SafeStays
    <3>2. CASE x \notin due \ hurt
      BY <1>0, <3>2 DEF Safe
    <3> QED BY <3>1, <3>2
  <2> QED BY <2>2, <2>3, <2>5
<1>8. ASSUME NEW x \in calls' PROVE Asleep(x)'
  <2>1. CASE x \in calls /\ (x.of = s /\ x.pc = "parked" => waiters[s] = NoWaiter)
    <3>1. Asleep(x) /\ x.of \in SignIns
      BY <1>0, <2>1, CallTyped DEF CodeInv
    <3> QED BY <1>0, <1>6, <2>1, <3>1 DEF Asleep
  <2>2. CASE /\ x.woken /\ x.pc = "parked"
             /\ \E c \in calls : x.of = c.of /\ x.cut = c.cut
    BY <1>0, <2>2 DEF CodeInv, Asleep
  <2> QED BY <1>5, <2>1, <2>2
<1>9. Mailed'
  <2>1. \A x \in mails' : \E n \in mails : x.code = n.code /\ x.sentAt = n.sentAt
    BY <1>3, <1>4
  <2>2. due' \subseteq mailed
    BY <1>0 DEF CodeInv, Mailed
  <2> QED BY <1>0, <2>1, <2>2, MailsMove
<1> QED BY <1>0, <1>7, <1>8, <1>9, EdgeCodes

LEMMA HandFailsCodes ==
  ASSUME CodeInv, TimeInv', NEW m \in mails, HandFails(m)
  PROVE  CodeInv'
<1>0. /\ now' = now /\ address' = address /\ inbox' = inbox /\ mailed' = mailed /\ signin' = signin
      /\ due' = due /\ calls' = calls /\ waiters' = waiters
      /\ mails' = mails \ {m} /\ hurt' = hurt \cup m.todo
  BY DEF HandFails, Student
<1>1. ASSUME NEW s \in SignIns PROVE WaiterTimes(s)' /\ Registration(s)' /\ Safe(s)'
  <2>1. WaiterTimes(s)' /\ Registration(s)'
    BY <1>0, DropsWaiters
  <2>2. Safe(s)'
    <3> SUFFICES ASSUME s \in due \ hurt' PROVE Safe(s)'
      BY <1>0 DEF Safe
    <3>1. InHand(s) /\ InInbox(s) /\ ~Missed(s) /\ s \notin m.todo
      BY <1>0 DEF CodeInv, Safe
    <3>2. Underway(s) => Underway(s)'
      BY <1>0, <3>1 DEF Underway, Handing, Stored, Answered, Live
    <3> QED BY <1>0, <3>1, <3>2 DEF Safe, InHand, InInbox, Missed, GivenUp, Submitting
  <2> QED BY <2>1, <2>2
<1>2. Mailed'
  BY <1>0 DEF CodeInv, Mailed, MailTimes
<1> QED BY <1>0, <1>1, <1>2, AsleepStays, EdgeCodes

LEMMA AlarmCodes ==
  ASSUME CodeInv, TimeInv', Alarm
  PROVE  CodeInv'
<1>0. /\ now' = now /\ address' = address /\ inbox' = inbox /\ mailed' = mailed /\ signin' = signin
      /\ calls' = calls /\ mails' = mails /\ hurt' = hurt /\ waiters' = Kept
      /\ due' = due \ {s \in SignIns : Expired(s)}
  BY DEF Alarm, Student
<1>1. \A s \in SignIns : waiters'[s] = waiters[s] \/ (waiters'[s] = NoWaiter /\ Expired(s))
  BY <1>0, KeptIs
<1>2. ASSUME NEW s \in SignIns PROVE WaiterTimes(s)' /\ Registration(s)' /\ Safe(s)'
  <2>1. WaiterTimes(s)' /\ Registration(s)'
    BY <1>0, <1>1, DropsWaiters
  <2>2. Safe(s)'
    <3> SUFFICES ASSUME s \in due, ~Expired(s), s \notin hurt PROVE Safe(s)'
      BY <1>0 DEF Safe
    <3>1. InHand(s) /\ InInbox(s) /\ ~Missed(s) /\ waiters'[s] = waiters[s]
      BY <1>1 DEF CodeInv, Safe
    <3>2. Underway(s) => Underway(s)'
      BY <1>0, <3>1 DEF Underway, Handing, Stored, Answered, Live
    <3> QED BY <1>0, <3>1, <3>2 DEF Safe, InHand, InInbox, Missed, GivenUp, Submitting
  <2> QED BY <2>1, <2>2
<1> QED BY <1>0, <1>1, <1>2, AsleepStays, SameMails, EdgeCodes

LEMMA ForeignCodes ==
  ASSUME CodeInv, TimeInv', NEW f \in Foreign, ForeignSignIn(f)
  PROVE  CodeInv'
<1>0. /\ now' = now /\ address' = address /\ inbox' = inbox /\ mailed' = mailed \cup {f}
      /\ signin' = signin /\ calls' = calls /\ hurt' = hurt /\ waiters' = waiters /\ due' = due
      /\ f \notin SignIns
  BY ChallengesAssumption DEF ForeignSignIn, Student, Engine
<1>1a. PICK behind \in 0..Drift :
         mails' = mails \cup {[code |-> f, sentAt |-> now - behind, todo |-> {"sent"}]}
  BY DEF ForeignSignIn
<1>1b. PICK n : n = [code |-> f, sentAt |-> now - behind, todo |-> {"sent"}]
  OBVIOUS
<1>1. mails' = mails \cup {n} /\ n.code = f
  BY <1>1a, <1>1b
<1>2. ASSUME NEW s \in SignIns PROVE WaiterTimes(s)' /\ Registration(s)' /\ Safe(s)'
  <2>1. WaiterTimes(s)' /\ Registration(s)'
    BY <1>0, DropsWaiters
  <2>2. Safe(s)'
    <3> SUFFICES ASSUME s \in due \ hurt PROVE Safe(s)'
      BY <1>0 DEF Safe
    <3>1. InHand(s) /\ InInbox(s) /\ ~Missed(s)
      BY DEF CodeInv, Safe
    <3>2. Underway(s) => Underway(s)'
      BY <1>0, <1>1 DEF Underway, Handing, Stored, Answered, Live
    <3> QED BY <1>0, <3>1, <3>2 DEF Safe, InHand, InInbox, Missed, GivenUp, Submitting
  <2> QED BY <2>1, <2>2
<1>3. Mailed'
  <2>0. Mailed
    BY DEF CodeInv
  <2>1. ASSUME NEW m \in mails' PROVE MailTimes(m)'
    BY <1>0, <1>1, <2>0 DEF Mailed, MailTimes
  <2>2. \A i \in DOMAIN inbox :
          /\ inbox[i].code \in mailed
          /\ inbox[i].code \in SignIns /\ signin[inbox[i].code].pc \in Seeking
               => signin[inbox[i].code].issued <= inbox[i].at
    BY <2>0 DEF Mailed
  <2>3. \A s \in mailed' \cap SignIns : signin[s].pc \in Seeking \cup Ended
    BY <1>0, <2>0 DEF Mailed
  <2> QED BY <1>0, <2>0, <2>1, <2>2, <2>3 DEF Mailed
<1> QED BY <1>0, <1>2, <1>3, AsleepStays, EdgeCodes

LEMMA DeleteAddressCodes ==
  ASSUME CodeInv, TimeInv', DeleteAddress
  PROVE  CodeInv'
<1>0. /\ now' = now /\ address' = FALSE /\ inbox' = inbox /\ mailed' = mailed /\ signin' = signin
      /\ calls' = calls /\ mails' = mails /\ hurt' = hurt /\ due' = {}
      /\ \A s \in SignIns : waiters'[s] = NoWaiter
  BY DEF DeleteAddress
<1>1. ASSUME NEW s \in SignIns PROVE WaiterTimes(s)' /\ Registration(s)' /\ Safe(s)'
  BY <1>0 DEF WaiterTimes, Registration, Safe
<1> QED BY <1>0, <1>1, AsleepStays, SameMails, EdgeCodes

(* Time passes only when nobody has a step to make at once.                *)
LEMMA TickCodes ==
  ASSUME CodeInv, TimeInv', Tick
  PROVE  CodeInv'
<1>0. /\ now' = now + 1 /\ address' = address /\ inbox' = inbox /\ mailed' = mailed /\ signin' = signin
      /\ calls' = calls /\ mails' = mails /\ hurt' = hurt /\ due' = due /\ waiters' = waiters
      /\ now \in Nat /\ TimeInv /\ TypeInv
  BY NowTyped DEF Tick, Student, Edge, Engine, CodeInv, TimeInv
<1>1. /\ \A c \in calls : c.of \notin hurt => c.pc = "parked" /\ ~c.woken
      /\ \A m \in mails : m.todo = {"sent"}
      /\ \A s \in SignIns : signin[s].pc \notin {"look", "pause"}
  BY DEF Tick, AtOnce, MayLook
<1>2. ASSUME NEW s \in SignIns PROVE Watched(s)' /\ Safe(s)'
  <2>0. WaiterTimes(s) /\ Registration(s) /\ Safe(s) /\ Times(s)
    BY <1>0 DEF CodeInv, Watched, TimeInv, Paced
  <2>1. WaiterTimes(s)'
    BY <1>0, <2>0, WaiterTyped, SignInTyped, Times0 DEF WaiterTimes
  <2>2. Registration(s)'
    <3>1. Reached(s)' <=> Reached(s)
      BY <1>0 DEF Reached, Live
    <3>2. now' < signin[s].began + Ttl => now < signin[s].began + Ttl
      BY <1>0, SignInTyped, Times0
    <3> QED BY <1>0, <2>0, <3>1, <3>2 DEF Registration
  <2>3. Watched(s)'
    BY <1>0, <1>1, <2>1, <2>2 DEF Watched, GmailLook
  <2>4. Safe(s)'
    <3> SUFFICES ASSUME s \in due \ hurt PROVE InHand(s)' /\ InInbox(s)' /\ ~Missed(s)'
      BY <1>0 DEF Safe
    <3>1. InHand(s) /\ InInbox(s) /\ ~Missed(s)
      BY <2>0 DEF Safe
    <3>2. InInbox(s)' /\ ~Missed(s)'
      BY <1>0, <3>1 DEF InInbox, Missed, GivenUp, Submitting
    <3>3. ASSUME Underway(s), signin[s].pc = "await", waiters[s] # NoWaiter PROVE FALSE
      <4>1. Stored(s)
        BY <1>0, <1>1, <3>3 DEF Underway, Handing, Answered, Live
      <4>2. PICK c \in calls : c \in Live(s)
        BY <1>0, <3>3 DEF TypeInv, OneCall, Waiting
      <4>3. c.of = s /\ Asleep(c)
        BY <4>2 DEF Live, CodeInv
      <4>4. waiters[s].results = << >>
        BY <1>1, <3>3, <4>3 DEF Asleep
      <4> QED BY <4>1, <4>4 DEF Stored
    <3>4. ASSUME Underway(s), signin[s].pc = "submit" PROVE Underway(s)'
      BY <1>0, <3>4 DEF Underway, Handing, Stored, Answered, Live
    <3>5. signin[s].pc \in Seeking /\ ~signin[s].gmail => signin[s].pc \in {"await", "submit"}
      BY <1>1, <2>0 DEF Times, Seeking
    <3>6. InHand(s)'
      BY <1>0, <3>1, <3>3, <3>4, <3>5 DEF InHand, Submitting
    <3> QED BY <3>2, <3>6
  <2> QED BY <2>3, <2>4
<1>3. \A c \in calls' : Asleep(c)'
  BY <1>0, AsleepStays
<1>4. Mailed'
  BY <1>0, SameMails
<1> QED BY <1>2, <1>3, <1>4 DEF CodeInv

LEMMA StutterCodes ==
  ASSUME CodeInv, TimeInv', UNCHANGED vars
  PROVE  CodeInv'
<1>0. /\ now' = now /\ address' = address /\ inbox' = inbox /\ mailed' = mailed /\ signin' = signin
      /\ calls' = calls /\ mails' = mails /\ hurt' = hurt /\ due' = due /\ waiters' = waiters
  BY DEF vars
<1>1. ASSUME NEW s \in SignIns PROVE WaiterTimes(s)' /\ Registration(s)' /\ Safe(s)'
  <2>1. WaiterTimes(s)' /\ Registration(s)'
    BY <1>0, DropsWaiters
  <2>2. Safe(s)'
    <3>0. Safe(s)
      BY DEF CodeInv
    <3>1. Underway(s) <=> Underway(s)'
      BY <1>0 DEF Underway, Handing, Stored, Answered, Live
    <3> QED BY <1>0, <3>0, <3>1 DEF Safe, InHand, InInbox, Missed, GivenUp, Submitting
  <2> QED BY <2>1, <2>2
<1> QED BY <1>0, <1>1, AsleepStays, SameMails, EdgeCodes

LEMMA HangsCodes ==
  ASSUME CodeInv, TimeInv', NEW x \in SignIns, Hangs(x)
  PROVE  CodeInv'
<1>0. /\ now' = now /\ address' = address /\ inbox' = inbox /\ mailed' = mailed /\ signin' = signin
      /\ calls' = calls /\ mails' = mails /\ hurt \subseteq hurt' /\ due' = due /\ waiters' = waiters
  BY DEF Hangs, Student, Edge
<1>1. ASSUME NEW s \in SignIns PROVE WaiterTimes(s)' /\ Registration(s)' /\ Safe(s)'
  <2>1. WaiterTimes(s)' /\ Registration(s)'
    BY <1>0, DropsWaiters
  <2>2. Safe(s)'
    <3>0. Safe(s)
      BY DEF CodeInv
    <3>1. Underway(s) <=> Underway(s)'
      BY <1>0 DEF Underway, Handing, Stored, Answered, Live
    <3> QED BY <1>0, <3>0, <3>1 DEF Safe, InHand, InInbox, Missed, GivenUp, Submitting
  <2> QED BY <2>1, <2>2
<1> QED BY <1>0, <1>1, AsleepStays, SameMails, EdgeCodes

LEMMA CodeNext ==
  ASSUME CodeInv, [Next]_vars
  PROVE  CodeInv'
<1>1. TimeInv'
  BY TimeNext DEF CodeInv
<1>2. ASSUME NEW s \in SignIns, SignInStep(s) PROVE CodeInv'
  BY <1>1, <1>2, BeginCodes, HearsCodes, CutCodes, ResumesCodes, RefreshCodes, LoginCodes, LookCodes,
     ListsCodes, ReadsCodes, PollFailsCodes, SubmitCodes, ReportCodes, HangsCodes
     DEF SignInStep
<1>3. CASE EdgeStep
  BY <1>1, <1>3, AwaitCodeCodes, AwakeCodes, ArrivesCodes, HandCodes, HandFailsCodes, AlarmCodes
     DEF EdgeStep
<1>4. ASSUME NEW f \in Foreign, ForeignSignIn(f) PROVE CodeInv'
  BY <1>1, <1>4, ForeignCodes
<1>5. CASE DeleteAddress
  BY <1>1, <1>5, DeleteAddressCodes
<1>6. CASE Tick
  BY <1>1, <1>6, TickCodes
<1>7. CASE UNCHANGED vars
  BY <1>1, <1>7, StutterCodes
<1> QED BY <1>2, <1>3, <1>4, <1>5, <1>6, <1>7 DEF Next

LEMMA Coming == Spec => []CodeInv
<1>1. Init => CodeInv
  BY InitCodes
<1>2. CodeInv /\ [Next]_vars => CodeInv'
  BY CodeNext
<1> QED BY <1>1, <1>2, PTL DEF Spec

(* Who has a forwarding address and gives up for want of a code never had  *)
(* a chance, however many other codes come and sign-ins wait: a code that  *)
(* came in time is with the edge, on its way, or tried                     *)
(* (ForwardedCodes::next, awaitCode, handToWaiters).                       *)
THEOREM ForwardedCodesReach ==
  Spec => [](\A s \in due \ hurt :
               ~signin[s].gmail /\ signin[s].outcome = "no code" /\ ~signin[s].late
                 => s \in signin[s].tried)
<1>1. CodeInv => \A s \in due \ hurt :
                   ~signin[s].gmail /\ signin[s].outcome = "no code" /\ ~signin[s].late
                     => s \in signin[s].tried
  BY DEF CodeInv, TimeInv, TypeInv, Typed, Safe, Missed, GivenUp
<1> QED BY <1>1, Coming, PTL

LEMMA BeforeIs ==
  ASSUME NEW t \in Nat, NEW n \in Nat
  PROVE  (Before(t, n) = 0 => ~(n < t)) /\ Before(t, n) <= t
BY DEF Before

LEMMA Transitive == \A x, y, z \in Nat : x <= y /\ y <= z => z >= x
OBVIOUS

(* How a sign-in comes to give up for want of a code.                      *)
GivesUp(s) ==
  \/ signin[s].pc = "look" /\ ~(now < signin[s].deadline)
  \/ signin[s].pc = "read" /\ signin[s].code = NoCode /\ now + Step > signin[s].deadline
  \/ s \in hurt'

(* How one comes to its end, and how to a list of mails.                   *)
EndsSo(s) == \E outcome \in Outcomes : Ends(s, outcome) /\ (outcome = "no code" => GivesUp(s))
ReportsOn(s) == signin[s].pc = "report" /\ signin' = [signin EXCEPT ![s].reports = @ + 1]

CameBy(s) == signin'[s] = signin[s] \/ EndsSo(s) \/ ReportsOn(s) \/ Lists(s)

LEMMA Comes ==
  ASSUME CodeInv, NEW s \in SignIns, signin'[s].pc \in {"report", "read"}, [Next]_vars
  PROVE  CameBy(s)
<1>0. TimeInv /\ TypeInv /\ signin \in [SignIns -> SignIn] /\ now \in Nat
  BY NowTyped DEF CodeInv, TimeInv, TypeInv, Typed
<1>1. ASSUME NEW outcome \in Outcomes, Ends(s, outcome), outcome # "no code" \/ GivesUp(s) PROVE CameBy(s)
  BY <1>1 DEF EndsSo, CameBy
<1>2. ASSUME NEW pc \in Phases \ {"report", "read"}, Goes(s, pc) PROVE FALSE
  BY <1>0, <1>2, GoesFields
<1>3. ASSUME NEW pc \in Phases \ {"report", "read"}, NEW until, NEW code, Slept(s, pc, until, code)
      PROVE  FALSE
  BY <1>3 DEF Slept
<1>4. "no code" \in Outcomes /\ {"vault_unusable", "forwarding_required", "gmail_revoked", "failed", "ok", "invalid"} \subseteq Outcomes \ {"no code"}
  BY DEF Outcomes
<1>5. {"vtop", "look", "pause", "poll", "await", "submit"} \subseteq Phases \ {"report", "read"}
  BY DEF Phases, Waiting
<1>6. ASSUME NEW outcome \in {"vault_unusable", "forwarding_required", "gmail_revoked", "failed", "ok", "invalid"},
             Ends(s, outcome)
      PROVE  CameBy(s)
  BY <1>1, <1>4, <1>6
<1>7. CASE Begin(s)
  <2>1. ~(signin' = [signin EXCEPT ![s].pc = "register", ![s].began = now, ![s].by = now + Hang])
    BY <1>0 DEF SignIn
  <2> QED BY <1>6, <1>7, <2>1 DEF Begin
<1>8. CASE Hears(s)
  <2>1. ~(signin' = [signin EXCEPT ![s].pc = "refresh", ![s].gmail = TRUE])
    BY <1>0 DEF SignIn
  <2>2. \A code : ~(signin' = [signin EXCEPT ![s].pc = "submit", ![s].code = code])
    BY <1>0 DEF SignIn
  <2>3. ASSUME NEW answer, Registered(s, answer) PROVE CameBy(s)
    BY <1>2, <1>5, <1>6, <2>1, <2>3 DEF Registered
  <2>4. ASSUME NEW answer, Awaited(s, answer) PROVE CameBy(s)
    BY <1>2, <1>5, <1>6, <2>2, <2>4 DEF Awaited
  <2> QED BY <1>8, <2>3, <2>4 DEF Hears
<1>9. CASE Cut(s) \/ Hangs(s)
  BY <1>2, <1>5, <1>9 DEF Cut, Hangs, CameBy
<1>10. CASE Resumes(s) \/ Refresh(s)
  BY <1>2, <1>5, <1>6, <1>10 DEF Resumes, Refresh
<1>11. CASE Login(s)
  <2>1. ~(signin' = [signin EXCEPT ![s].pc = "look", ![s].issued = now, ![s].deadline = now + Wait])
    BY <1>0 DEF SignIn
  <2> QED BY <1>6, <1>11, <2>1 DEF Login, SignedIn
<1>12. CASE Look(s)
  <2>1. Before(signin[s].deadline, now) = 0 => ~(now < signin[s].deadline)
    <3>1. signin[s].deadline \in Nat
      BY <1>0, SignInTyped
    <3> QED BY <1>0, <3>1, BeforeIs
  <2>2. ASSUME Before(signin[s].deadline, now) = 0, Ends(s, "no code") PROVE CameBy(s)
    BY <1>1, <1>4, <1>12, <2>1, <2>2 DEF Look, At, GivesUp
  <2>3. now + Hang \in Nat
    BY <1>0, Times0
  <2>4. ASSUME NEW pc \in {"poll", "await"}, NEW until \in Nat,
               signin' = [signin EXCEPT ![s].pc = pc, ![s].by = until]
        PROVE  FALSE
    <3>1. Slept(s, pc, until, signin[s].code)
      BY <1>0, <1>5, <2>4, SleepsSo
    <3> QED BY <1>3, <1>5, <3>1
  <2> QED BY <1>0, <1>12, <2>2, <2>3, <2>4 DEF Look, Sleeps
<1>13. CASE Lists(s)
  BY <1>13 DEF CameBy
<1>14. CASE Reads(s)
  <2>1. ASSUME signin[s].code = NoCode, now + Step > signin[s].deadline, Ends(s, "no code") PROVE CameBy(s)
    BY <1>1, <1>4, <1>14, <2>1 DEF Reads, At, GivesUp
  <2> QED BY <1>0, <1>3, <1>5, <1>14, <2>1, ReadsSo
<1>15. CASE PollFails(s)
  BY <1>1, <1>4, <1>15 DEF PollFails, GivesUp
<1>16. CASE Submit(s)
  <2>1. PICK r : r = [signin[s] EXCEPT !.pc = "look", !.tried = @ \cup {signin[s].code},
                        !.code = NoCode, !.late = now >= signin[s].deadline]
    OBVIOUS
  <2>2. ~(signin' = [signin EXCEPT ![s].pc = "look", ![s].tried = @ \cup {signin[s].code},
                       ![s].code = NoCode, ![s].late = now >= signin[s].deadline])
    <3> SUFFICES ASSUME signin' = [signin EXCEPT ![s].pc = "look", ![s].tried = @ \cup {signin[s].code},
                          ![s].code = NoCode, ![s].late = now >= signin[s].deadline]
                 PROVE  FALSE
      OBVIOUS
    <3>1. signin'[s] = r
      BY <1>0, <2>1
    <3>2. r.pc = "look"
      BY <1>0, <2>1 DEF SignIn
    <3> QED BY <3>1, <3>2
  <2> QED BY <1>6, <1>16, <2>2 DEF Submit, SignedIn
<1>17. CASE Report(s)
  <2>1. ~(signin' = [signin EXCEPT ![s] = [Idle EXCEPT !.pc = "over"]])
    BY <1>0 DEF Idle
  <2> QED BY <1>17, <2>1 DEF Report, At, ReportsOn, CameBy
<1>18. ASSUME NEW x \in SignIns, x # s, SignInStep(x) PROVE signin'[s] = signin[s]
  <2>1. CASE Begin(x) \/ Resumes(x) \/ Refresh(x) \/ Login(x) \/ Report(x) \/ Hangs(x)
    BY <1>0, <1>18, <2>1 DEF Begin, Resumes, Refresh, Login, Report, SignedIn, Ends, Goes, Hangs
  <2>2. CASE Hears(x)
    BY <1>0, <1>18, <2>2 DEF Hears, Registered, Awaited, Ends, Goes
  <2>3. CASE Cut(x)
    BY <1>0, <1>18, <2>3 DEF Cut, Goes
  <2>4. CASE Look(x)
    BY <1>0, <1>18, <2>4 DEF Look, Sleeps, Ends
  <2>5. CASE Lists(x) \/ Reads(x) \/ PollFails(x)
    BY <1>0, <1>18, <2>5 DEF Lists, Reads, Sleeps, Goes, PollFails, Ends
  <2>6. CASE Submit(x)
    BY <1>0, <1>18, <2>6 DEF Submit, SignedIn, Ends
  <2> QED BY <1>18, <2>1, <2>2, <2>3, <2>4, <2>5, <2>6 DEF SignInStep
<1>19. ASSUME NEW x \in SignIns, SignInStep(x) PROVE CameBy(s)
  <2>1. CASE x = s
    BY <1>7, <1>8, <1>9, <1>10, <1>11, <1>12, <1>13, <1>14, <1>15, <1>16, <1>17, <1>19, <2>1
       DEF SignInStep
  <2>2. CASE x # s
    BY <1>18, <1>19, <2>2 DEF CameBy
  <2> QED BY <2>1, <2>2
<1>20. ASSUME ~(\E x \in SignIns : SignInStep(x)) PROVE signin' = signin
  BY <1>20 DEF Next, EdgeStep, AwaitCode, Awake, Arrives, Hand, HandFails, Alarm, ForeignSignIn,
     DeleteAddress, Tick, Engine, vars
<1> QED BY <1>19, <1>20 DEF CameBy

LEMMA GiveUps ==
  ASSUME CodeInv, TimeInv', NEW s \in SignIns, signin'[s].outcome = "no code", [Next]_vars
  PROVE  /\ signin'[s].late = signin[s].late /\ signin'[s].tried = signin[s].tried
         /\ signin[s].outcome = "no code" \/ GivesUp(s)
<1>0. TypeInv /\ signin \in [SignIns -> SignIn] /\ signin'[s].pc = "report"
  BY DEF CodeInv, TimeInv, TypeInv, Typed, Paced, Times
<1>1. CASE EndsSo(s)
  BY <1>0, <1>1, EndsFields DEF EndsSo
<1>2. CASE ReportsOn(s)
  <2>1. PICK r : r = [signin[s] EXCEPT !.reports = @ + 1]
    OBVIOUS
  <2>2. r.outcome = signin[s].outcome /\ r.late = signin[s].late /\ r.tried = signin[s].tried
    BY <1>0, <2>1 DEF SignIn
  <2>3. signin'[s] = r
    BY <1>0, <1>2, <2>1 DEF ReportsOn
  <2> QED BY <2>2, <2>3
<1>3. ~Lists(s)
  BY <1>0, ListsSo DEF Slept
<1> QED BY <1>0, <1>1, <1>2, <1>3, Comes DEF CameBy

(* Every code that came is among the newest mails newest_otp lists.        *)
Listing == \A s \in due, i \in DOMAIN inbox : inbox[i].code = s => i + MaxResults > Len(inbox)

(* A list of mails asked for before a code came is read soon enough.       *)
InRead(s) ==
  signin[s].pc = "read" /\ signin[s].code = NoCode =>
    s \in signin[s].tried \/ signin[s].by + Step <= signin[s].deadline

Found == NoCodeMissed /\ \A s \in due \ hurt : InRead(s)

LEMMA Arrived ==
  ASSUME CodeInv, [Next]_vars, NEW s \in due', s \notin due
  PROVE  InTime(s) /\ signin' = signin /\ s \in SignIns
<1>1. PICK m \in mails : Arrives(m)
  BY DEF Next, SignInStep, EdgeStep, Begin, Hears, Hangs, Cut, Resumes, Refresh, Login, Look, Lists,
     Reads, PollFails, Submit, Report, AwaitCode, Awake, Hand, HandFails, Alarm, ForeignSignIn,
     DeleteAddress, Tick, Engine, vars
<1> QED BY <1>1 DEF Arrives

LEMMA HurtGrows ==
  ASSUME [Next]_vars
  PROVE  hurt \subseteq hurt'
BY DEF Next, SignInStep, EdgeStep, Begin, Hears, Hangs, Cut, Resumes, Refresh, Login, Look, Lists,
   Reads, PollFails, Submit, Report, AwaitCode, Awake, Arrives, Hand, HandFails, Alarm, ForeignSignIn,
   DeleteAddress, Tick, Engine, vars

(* A list asked for when the code is in the inbox has it.                  *)
LEMMA ListHasIt ==
  ASSUME CodeInv, Listing, NEW s \in due \ hurt, signin[s].pc = "poll", s \notin signin[s].tried
  PROVE  Candidates(s) # {}
<1>0. /\ TimeInv /\ TypeInv /\ Mailed /\ s \in SignIns /\ InInbox(s)
  BY DEF CodeInv, Safe, TimeInv, TypeInv, Typed
<1>1. signin[s].pc \in Seeking /\ signin[s].gmail
  BY <1>0 DEF Seeking, TimeInv, Paced, Times
<1>2. PICK i \in DOMAIN inbox : inbox[i].code = s
  BY <1>0, <1>1 DEF InInbox, Submitting
<1>3. i + MaxResults > Len(inbox)
  BY <1>2 DEF Listing
<1>4. signin[s].issued <= inbox[i].at
  BY <1>0, <1>1, <1>2 DEF Mailed
<1>5. inbox[i].at >= Before(signin[s].issued, Slack)
  <2>1. signin[s].issued \in Nat /\ inbox[i].at \in Nat /\ Slack \in Nat
    BY <1>0, SignInTyped, InboxTyped, Times0
  <2>2. Before(signin[s].issued, Slack) \in Nat /\ Before(signin[s].issued, Slack) <= signin[s].issued
    BY <2>1, BeforeIs, BeforeNat
  <2> QED BY <1>4, <2>1, <2>2, Transitive
<1>6. i \in Candidates(s)
  BY <1>2, <1>3, <1>5 DEF Candidates, Listed
<1> QED BY <1>6

LEMMA InReadNext ==
  ASSUME CodeInv, TimeInv', Found, Listing, [Next]_vars, NEW s \in due' \ hurt'
  PROVE  InRead(s)'
<1> SUFFICES ASSUME signin'[s].pc = "read", signin'[s].code = NoCode, s \notin signin'[s].tried
             PROVE  signin'[s].by + Step <= signin'[s].deadline
  BY DEF InRead
<1>0. TimeInv /\ TypeInv /\ s \in SignIns /\ now \in Nat /\ s \notin hurt
  BY NowTyped, HurtGrows DEF CodeInv, TimeInv, TypeInv, Typed
<1>1. CASE s \in due /\ signin'[s] = signin[s]
  BY <1>0, <1>1 DEF Found, InRead
<1>2. CASE s \notin due
  <2>1. InTime(s) /\ signin'[s] = signin[s]
    BY <1>2, Arrived
  <2>2. Times(s)
    BY <1>0 DEF TimeInv, Paced
  <2>3. signin[s].by <= now + Reading /\ now + Reading + Step <= signin[s].deadline
    BY <2>1, <2>2 DEF Times, InTime
  <2>4. signin[s].by \in Nat /\ signin[s].deadline \in Nat
    BY <1>0, SignInTyped
  <2> QED BY <1>0, <2>1, <2>3, <2>4, Times0
<1>3. CASE s \in due /\ Lists(s)
  <2>1. PICK code \in Codes \cup {NoCode} : Newest(s, code) /\ Slept(s, "read", now + Reading, code)
    BY <1>0, <1>3, ListsSo
  <2>2. signin[s].pc = "poll" /\ s \notin signin[s].tried /\ code = NoCode
    BY <1>3, <2>1 DEF Lists, At, Slept
  <2>3. Candidates(s) # {}
    BY <1>0, <1>3, <2>2, ListHasIt
  <2>4. PICK i \in Candidates(s) : code = inbox[i].code
    BY <2>1, <2>3 DEF Newest
  <2>5. inbox[i].code \in Codes
    BY <1>0, InboxTyped DEF Candidates, Listed
  <2> QED BY <2>2, <2>4, <2>5, CodeNames
<1>4. signin'[s] = signin[s] \/ Lists(s)
  <2>1. ~EndsSo(s)
    BY <1>0, EndsFields DEF EndsSo
  <2>2. ~ReportsOn(s)
    <3> SUFFICES ASSUME ReportsOn(s) PROVE FALSE
      OBVIOUS
    <3>1. PICK r : r = [signin[s] EXCEPT !.reports = @ + 1]
      OBVIOUS
    <3>2. r.pc = signin[s].pc /\ signin'[s] = r
      BY <1>0, <3>1 DEF ReportsOn, TypeInv, Typed, SignIn
    <3> QED BY <3>2 DEF ReportsOn
  <2> QED BY <1>0, <2>1, <2>2, Comes DEF CameBy
<1> QED BY <1>1, <1>2, <1>3, <1>4

LEMMA SoonEnough == \A n, by, d \in Nat : n <= by /\ by + Step <= d => ~(n + Step > d)
BY Times0

LEMMA FoundNext ==
  ASSUME CodeInv, TimeInv', Found, [Next]_vars
  PROVE  NoCodeMissed'
<1> SUFFICES ASSUME NEW s \in due', s \notin hurt', signin'[s].outcome = "no code", ~signin'[s].late,
                    s \notin signin'[s].tried
             PROVE  FALSE
  BY DEF NoCodeMissed
<1>0. /\ TimeInv /\ TypeInv /\ s \in SignIns /\ now \in Nat /\ signin'[s].pc = "report"
  <2>1. s \in SignIns
    BY DEF TimeInv, TypeInv, Typed
  <2> QED BY <2>1, NowTyped DEF CodeInv, TimeInv, Paced, Times
<1>1. s \in due /\ s \notin hurt
  <2>1. s \notin due => InTime(s) /\ signin' = signin
    BY Arrived
  <2> QED BY <1>0, <2>1, HurtGrows DEF InTime
<1>2. ~signin[s].late /\ s \notin signin[s].tried /\ (signin[s].outcome = "no code" \/ GivesUp(s))
  BY <1>0, GiveUps
<1>3. Watched(s) /\ InHand(s) /\ Times(s) /\ InRead(s)
  BY <1>0, <1>1 DEF CodeInv, Safe, TimeInv, Paced, Found
<1>4. CASE signin[s].pc = "look" /\ ~(now < signin[s].deadline)
  BY <1>2, <1>3, <1>4 DEF Watched, GmailLook, InHand, Seeking, Submitting
<1>5. CASE signin[s].pc = "read" /\ signin[s].code = NoCode /\ now + Step > signin[s].deadline
  <2>1. now <= signin[s].by /\ signin[s].by + Step <= signin[s].deadline
    BY <1>2, <1>3, <1>5 DEF Times, InRead
  <2>2. signin[s].by \in Nat /\ signin[s].deadline \in Nat
    BY <1>0, SignInTyped
  <2> QED BY <1>0, <1>5, <2>1, <2>2, SoonEnough
<1> QED BY <1>1, <1>2, <1>4, <1>5 DEF GivesUp, Found, NoCodeMissed

(* Who gives up for want of a code never had a chance, the Gmail student   *)
(* neither, as long as the mails newest_otp lists have every code that     *)
(* came (sign_in, wait_for_otp, newest_otp, awaitCode).                    *)
THEOREM NoCodeMissedHolds == Spec /\ []Listing => []NoCodeMissed
<1>1. Init => Found
  BY DEF Init, Found, NoCodeMissed
<1>2. CodeInv /\ CodeInv' /\ Found /\ Listing /\ [Next]_vars => Found'
  BY FoundNext, InReadNext DEF CodeInv, Found
<1>3. Found => NoCodeMissed
  BY DEF Found
<1> QED BY <1>1, <1>2, <1>3, Coming, PTL DEF Spec
=============================================================================

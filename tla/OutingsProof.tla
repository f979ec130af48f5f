---------------------------- MODULE OutingsProof ----------------------------
(***************************************************************************)
(* Outings, for any number of calls, keys, requests and sessions: no trip  *)
(* is filed twice, nothing is filed or cancelled that was not shown, and   *)
(* what a tool reports is what VTOP did, each with the exceptions the      *)
(* property names.                                                         *)
(*                                                                         *)
(* A row of a trip, a call that is about to send for it and a send VTOP    *)
(* has yet to handle exclude each other, and there is one of them at most  *)
(* (OneFiling): the list is read before every send, the retry's included.  *)
(* A code vouches for a call from its beginning to the moment VTOP handles *)
(* what it sent (Shaped, LateShown), because codes are only ever added.    *)
(***************************************************************************)
EXTENDS Outings, FiniteSetTheorems, TLAPS

RunType ==
  [pc: Running, key: Keys, ask: Asks, sends: BOOLEAN, began: Nat, session: Nat,
   retried: BOOLEAN, seen: SUBSET Row]
EndType == [pc: Results, fair: BOOLEAN, listed: BOOLEAN, done: BOOLEAN]
SendType == [key: Keys, ask: Asks, began: Nat]

Types ==
  /\ now \in Nat /\ added \in Nat /\ made \in Nat
  /\ kept \in [Keys -> Nat] /\ allowed \subseteq Keys
  /\ rows \subseteq Row /\ IsFiniteSet(rows) /\ \A r \in rows : r.id <= added
  /\ late \subseteq SendType
  /\ codes \subseteq Code /\ \A code \in codes : code.expires <= now + Confirm

\* What is said of call c.
Shaped(c) ==
  \/ call[c] = [pc |-> "free"]
  \/ /\ call[c] \in RunType
     /\ call[c].sends => Shown(Send(c))
     /\ call[c].pc \in {"check", "form", "post"} => call[c].sends
     /\ call[c].pc = "post" /\ call[c].ask.op = "cancel" =>
          \E r \in call[c].seen : r.id = Sent(c) /\ r.waits
  \/ /\ call[c] \in EndType
     /\ call[c].pc \in {"applied", "cancelled"} /\ call[c].fair => call[c].done
     /\ call[c].pc \in {"not_applied", "not_cancelled"} /\ call[c].fair /\ call[c].listed
          => ~call[c].done

CallsShaped == call = [c \in Calls |-> call[c]] /\ \A c \in Calls : Shaped(c)
LateShown == \A m \in late : Shown(m)

Trips == {Trip[r] : r \in Requests}

\* The rows of a trip, and who is to file it.
Mine(t) == {r \in rows : r.by # Student /\ Trip[r.req] = t}
Asked(send, t) == send.ask.op = "apply" /\ Trip[send.ask.what] = t
Files(c, t) == call[c].pc \in {"form", "post"} /\ Asked(call[c], t)

OneFiling(t) ==
  t \notin raced =>
    /\ \A r, q \in Mine(t) : r = q
    /\ \A c, d \in Calls : Files(c, t) /\ Files(d, t) => c = d
    /\ \A m, n \in late : Asked(m, t) /\ Asked(n, t) => m = n
    /\ \A r \in Mine(t), c \in Calls : ~Files(c, t)
    /\ \A r \in Mine(t), m \in late : ~Asked(m, t)
    /\ \A c \in Calls, m \in late : ~(Files(c, t) /\ Asked(m, t))

FiledApart == \A t \in Trips : OneFiling(t)

IInv == Types /\ CallsShaped /\ LateShown /\ FiledApart

\* A call that does not move is as it was while codes are only added.
LEMMA OneCall ==
  ASSUME CallsShaped, codes \subseteq codes', NEW c \in Calls,
         call' = [call EXCEPT ![c] = call'[c]], Shaped(c)'
  PROVE  CallsShaped'
<1>1. call' = [d \in Calls |-> call'[d]] /\ \A d \in Calls \ {c} : call'[d] = call[d]
  BY DEF CallsShaped
<1> SUFFICES ASSUME NEW d \in Calls \ {c} PROVE Shaped(d)'
  BY <1>1 DEF CallsShaped
<1>2. Send(d)' = Send(d) /\ Shaped(d)
  BY <1>1 DEF CallsShaped, Send
<1>3. Shown(Send(d)) => Shown(Send(d))'
  BY <1>2 DEF Shown
<1> QED BY <1>1, <1>2, <1>3 DEF Shaped, Sent

LEMMA NoCall ==
  ASSUME CallsShaped, codes \subseteq codes', UNCHANGED call
  PROVE  CallsShaped'
BY DEF CallsShaped, Shaped, Shown, Send, Sent, EndType, Results, RunType

LEMMA LateKeeps ==
  ASSUME LateShown, codes \subseteq codes', late' \subseteq late
  PROVE  LateShown'
BY DEF LateShown, Shown

\* Nobody new is to file, and no row of a tool's is new.
LEMMA Quiet ==
  ASSUME FiledApart, raced \subseteq raced', late' \subseteq late,
         \A t \in Trips : Mine(t)' \subseteq Mine(t),
         \A t \in Trips, c \in Calls : Files(c, t)' => Files(c, t)
  PROVE  FiledApart'
BY DEF FiledApart, OneFiling

\* Steps of a call before its send leave VTOP alone.
LEMMA CallMoves ==
  ASSUME IInv, NEW c \in Calls, call' = [call EXCEPT ![c] = call'[c]], Shaped(c)',
         UNCHANGED <<rows, added, late, raced>>, codes \subseteq codes',
         \A t \in Trips : Files(c, t)' => Files(c, t)
  PROVE  CallsShaped' /\ LateShown' /\ FiledApart'
<1>1. \A d \in Calls \ {c} : call'[d] = call[d]
  BY DEF IInv, CallsShaped
<1>2. \A t \in Trips : Mine(t)' = Mine(t)
  BY DEF Mine
<1>3. \A t \in Trips, d \in Calls : Files(d, t)' => Files(d, t)
  BY <1>1 DEF Files, Asked
<1> QED BY <1>2, <1>3, OneCall, LateKeeps, Quiet DEF IInv

LEMMA EndShaped ==
  ASSUME CallsShaped, NEW c \in Calls, NEW result \in {"shown", "refused", "error"},
         Ends(c, result)
  PROVE  /\ call' = [call EXCEPT ![c] = call'[c]]
         /\ Shaped(c)' /\ call'[c].pc = result
<1>1. call'[c] = [pc |-> result, fair |-> FALSE, listed |-> FALSE, done |-> FALSE]
  BY DEF Ends, Ended, CallsShaped
<1>2. call' = [call EXCEPT ![c] = call'[c]]
  BY <1>1 DEF Ends, Ended
<1>3. call'[c] \in EndType
  <2>1. result \in Results
    BY DEF Results
  <2> QED BY <1>1, <2>1 DEF EndType
<1> QED BY <1>1, <1>2, <1>3 DEF Shaped

LEMMA Runs ==
  ASSUME CallsShaped, NEW c \in Calls, call[c].pc \in Running
  PROVE  /\ call[c] \in RunType
         /\ call[c].sends => Shown(Send(c))
         /\ call[c].pc \in {"check", "form", "post"} => call[c].sends
         /\ call[c].pc = "post" /\ call[c].ask.op = "cancel" =>
              \E r \in call[c].seen : r.id = Sent(c) /\ r.waits
<1>1. Shaped(c)
  BY DEF CallsShaped
<1>2. call[c] # [pc |-> "free"]
  BY DEF Running
<1>3. call[c] \notin EndType
  BY DEF Running, EndType, Results
<1> QED BY <1>1, <1>2, <1>3 DEF Shaped

LEMMA BeginKeeps ==
  ASSUME IInv, NEW c \in Calls, Begin(c)
  PROVE  IInv'
<1>1. UNCHANGED <<now, allowed, added, made, kept, rows, late, raced, codes>>
  BY DEF Begin, Others, VtopKeeps, SessionsKeep
<1>2. PICK key \in Keys, ask \in Asks, sends \in BOOLEAN :
        /\ Begins(c, key, ask, sends)
        /\ sends => \E code \in codes : Confirmed(code, key, ask)
  <2>1. PICK key \in allowed, ask \in Asks :
          \/ Begins(c, key, ask, FALSE)
          \/ (\E code \in codes : Confirmed(code, key, ask)) /\ Begins(c, key, ask, TRUE)
    BY DEF Begin
  <2>2. key \in Keys
    BY <2>1 DEF IInv, Types
  <2> QED BY <2>1, <2>2
<1>3. call' = [call EXCEPT ![c] = call'[c]]
      /\ call'[c] = [pc |-> "session", key |-> key, ask |-> ask, sends |-> sends, began |-> now,
                     session |-> NoSession, retried |-> FALSE, seen |-> {}]
  BY <1>2 DEF Begins, IInv, CallsShaped
<1>4. call'[c] \in RunType /\ call'[c].pc = "session"
  BY <1>3 DEF RunType, Running, IInv, Types, NoSession
<1>5. sends => Shown(Send(c))'
  <2> SUFFICES ASSUME sends PROVE Shown(Send(c))'
    OBVIOUS
  <2>1. PICK code \in codes : Confirmed(code, key, ask)
    BY <1>2
  <2>2. /\ code.key = key /\ code.ask = ask /\ code.expires \in Nat
        /\ now <= code.expires /\ code.expires <= now + Confirm
    BY <2>1 DEF Confirmed, IInv, Types, Code
  <2>3. code.expires - Confirm <= now
    BY <2>2, BoundsAssumption DEF IInv, Types
  <2> QED BY <1>1, <1>3, <2>2, <2>3 DEF Shown, Send
<1>6. Shaped(c)'
  BY <1>3, <1>4, <1>5 DEF Shaped
<1>7. \A t : ~Files(c, t)'
  BY <1>4 DEF Files
<1> QED BY <1>1, <1>3, <1>6, <1>7, CallMoves DEF IInv, Types

LEMMA TriesShaped ==
  ASSUME IInv, NEW c \in Calls, call[c].pc \in Running, NEW s \in Nat, Tries(c, s),
         UNCHANGED codes
  PROVE  /\ call' = [call EXCEPT ![c] = call'[c]] /\ Shaped(c)'
         /\ \A t : ~Files(c, t)'
<1>1. call[c] \in RunType /\ (call[c].sends => Shown(Send(c)))
  BY Runs DEF IInv
<1>2. PICK pc \in {"look", "check", "form"} :
        /\ call' = [call EXCEPT ![c].session = s, ![c].pc = pc]
        /\ pc \in {"check", "form"} => call[c].sends
        /\ pc = "form" => call[c].ask.op # "apply"
  BY DEF Tries
<1>3. call'[c] = [call[c] EXCEPT !.session = s, !.pc = pc] /\ call' = [call EXCEPT ![c] = call'[c]]
  BY <1>2 DEF IInv, CallsShaped
<1>4. call'[c] \in RunType
  <2>1. pc \in Running
    BY <1>2 DEF Running
  <2> QED BY <1>1, <1>3, <2>1 DEF RunType
<1>5. Send(c)' = Send(c) /\ call'[c].sends = call[c].sends /\ call'[c].pc = pc
      /\ call'[c].ask = call[c].ask
  BY <1>1, <1>3 DEF RunType, Send
<1>6. Shown(Send(c))' <=> Shown(Send(c))
  BY <1>5 DEF Shown
<1> QED BY <1>1, <1>2, <1>3, <1>4, <1>5, <1>6 DEF Shaped, Files, Asked

\* The session a call is to use is not what the invariant is about.
LEMMA SessionKeeps ==
  ASSUME IInv, NEW c \in Calls, Session(c) \/ Fetch(c) \/ Fetched(c) \/ Expire(c)
  PROVE  IInv'
<1>1. /\ UNCHANGED <<now, allowed, added, rows, late, raced, codes>>
      /\ call[c].pc \in {"session", "fetch", "fetched", "expire"} /\ call[c].pc \in Running
  BY DEF Session, Fetch, Fetched, Expire, Others, VtopKeeps, At, Running
<1>2. call[c] \in RunType /\ (call[c].sends => Shown(Send(c))) /\ call[c].key \in Keys
  BY <1>1, Runs DEF IInv, RunType
<1>3. made' \in Nat /\ kept' \in [Keys -> Nat]
  <2>1. CASE Fetch(c)
    <3>1. made' = made \/ made' \in Sessions
      BY <2>1 DEF Fetch
    <3> QED BY <2>1, <3>1 DEF Fetch, IInv, Types, Sessions
  <2>2. CASE Fetched(c)
    <3>1. call[c].session \in Nat
      BY <1>2 DEF RunType
    <3> QED BY <1>2, <2>2, <3>1 DEF Fetched, IInv, Types
  <2>3. CASE Session(c) \/ Expire(c)
    BY <2>3 DEF Session, Expire, SessionsKeep, IInv, Types
  <2> QED BY <2>1, <2>2, <2>3
<1>4. Types'
  BY <1>1, <1>3 DEF IInv, Types
<1>5. ASSUME NEW s \in Nat, NEW pc \in {"session", "fetch", "fetched"},
             call' = [call EXCEPT ![c].session = s, ![c].pc = pc]
      PROVE  IInv'
  <2>1. /\ call'[c] = [call[c] EXCEPT !.session = s, !.pc = pc]
        /\ call' = [call EXCEPT ![c] = call'[c]]
    BY <1>5 DEF IInv, CallsShaped
  <2>2. pc \in Running
    BY DEF Running
  <2>3. call'[c] \in RunType /\ call'[c].pc = pc /\ call'[c].sends = call[c].sends /\ Send(c)' = Send(c)
    BY <1>2, <2>1, <2>2 DEF RunType, Send
  <2>4. Shown(Send(c))' <=> Shown(Send(c))
    BY <1>1, <2>3 DEF Shown
  <2>5. Shaped(c)'
    BY <1>2, <2>3, <2>4 DEF Shaped
  <2>6. \A t : ~Files(c, t)'
    BY <2>3 DEF Files
  <2> QED BY <1>1, <1>4, <2>1, <2>5, <2>6, CallMoves DEF IInv
<1>6. ASSUME Ends(c, "error") PROVE IInv'
  <2>1. \A t : ~Files(c, t)'
    BY <1>6, EndShaped DEF IInv, Files
  <2> QED BY <1>1, <1>4, <1>6, <2>1, EndShaped, CallMoves DEF IInv
<1>7. ASSUME NEW s \in Nat, Tries(c, s) PROVE IInv'
  <2>1. call' = [call EXCEPT ![c] = call'[c]] /\ Shaped(c)' /\ \A t : ~Files(c, t)'
    BY <1>1, <1>7, TriesShaped
  <2> QED BY <1>1, <1>4, <2>1, CallMoves DEF IInv
<1>8. CASE Session(c)
  <2>1. CASE Tries(c, kept[call[c].key])
    BY <1>2, <1>7, <2>1 DEF IInv, Types
  <2>2. CASE Goes(c, "fetch")
    <3>1. call' = [call EXCEPT ![c].session = call[c].session, ![c].pc = "fetch"] /\ call[c].session \in Nat
      BY <1>2, <2>2 DEF Goes, RunType, IInv, CallsShaped
    <3> QED BY <1>5, <3>1
  <2> QED BY <1>8, <2>1, <2>2 DEF Session
<1>9. CASE Fetch(c)
  <2>1. CASE \E s \in Sessions : call' = [call EXCEPT ![c].session = s, ![c].pc = "fetched"]
    <3>1. PICK s \in Sessions : call' = [call EXCEPT ![c].session = s, ![c].pc = "fetched"]
      BY <2>1
    <3>2. s \in Nat
      BY DEF Sessions
    <3> QED BY <1>5, <3>1, <3>2
  <2> QED BY <1>6, <1>9, <2>1 DEF Fetch
<1>10. CASE Fetched(c)
  BY <1>2, <1>7, <1>10 DEF Fetched, RunType
<1>11. CASE Expire(c)
  <2>1. CASE Goes(c, "session")
    <3>1. call' = [call EXCEPT ![c].session = call[c].session, ![c].pc = "session"] /\ call[c].session \in Nat
      BY <1>2, <2>1 DEF Goes, RunType, IInv, CallsShaped
    <3> QED BY <1>5, <3>1
  <2> QED BY <1>6, <1>11, <2>1 DEF Expire
<1> QED BY <1>8, <1>9, <1>10, <1>11

\* A call that VTOP rejected is tried again, or over: it does not send.
LEMMA RejectedShaped ==
  ASSUME IInv, NEW c \in Calls, call[c].pc \in Running, Rejected(c), UNCHANGED codes
  PROVE  /\ call' = [call EXCEPT ![c] = call'[c]] /\ Shaped(c)'
         /\ call'[c].pc \in {"expire", "error"}
         /\ kept' \in [Keys -> Nat]
<1>1. call[c] \in RunType /\ (call[c].sends => Shown(Send(c))) /\ call[c].key \in Keys
  BY Runs DEF IInv, RunType
<1>2. CASE /\ call' = [call EXCEPT ![c].retried = TRUE, ![c].pc = "expire"]
           /\ kept' = [kept EXCEPT ![call[c].key] = NoSession]
  <2>1. /\ call'[c] = [call[c] EXCEPT !.retried = TRUE, !.pc = "expire"]
        /\ call' = [call EXCEPT ![c] = call'[c]]
    BY <1>2 DEF IInv, CallsShaped
  <2>2. "expire" \in Running
    BY DEF Running
  <2>3. call'[c] \in RunType /\ call'[c].pc = "expire" /\ call'[c].sends = call[c].sends /\ Send(c)' = Send(c)
    BY <1>1, <2>1, <2>2 DEF RunType, Send
  <2>4. Shown(Send(c))' <=> Shown(Send(c))
    BY <2>3 DEF Shown
  <2>5. Shaped(c)'
    BY <1>1, <2>3, <2>4 DEF Shaped
  <2> QED BY <1>2, <2>1, <2>3, <2>5 DEF IInv, Types, NoSession
<1>3. CASE Ends(c, "error") /\ UNCHANGED kept
  BY <1>3, EndShaped DEF IInv, Types
<1> QED BY <1>2, <1>3 DEF Rejected

LEMMA NoPageKeeps ==
  ASSUME IInv, NEW c \in Calls, call[c].pc \in Running, NoPage(c)
  PROVE  IInv'
<1>1. UNCHANGED <<now, allowed, added, made, rows, late, raced, codes>>
  BY DEF NoPage, Others, VtopKeeps
<1>2. /\ call' = [call EXCEPT ![c] = call'[c]] /\ Shaped(c)'
      /\ call'[c].pc \in {"expire", "error"} /\ kept' \in [Keys -> Nat]
  <2>1. CASE Rejected(c)
    BY <1>1, <2>1, RejectedShaped
  <2>2. CASE Ends(c, "error") /\ UNCHANGED kept
    BY <2>2, EndShaped DEF IInv, Types
  <2> QED BY <2>1, <2>2 DEF NoPage
<1>3. \A t : ~Files(c, t)'
  BY <1>2 DEF Files
<1> QED BY <1>1, <1>2, <1>3, CallMoves DEF IInv, Types

LEMMA LookKeeps ==
  ASSUME IInv, NEW c \in Calls, Look(c)
  PROVE  IInv'
<1>1. call[c].pc \in Running
  BY DEF Look, At, Running
<1>2. CASE NoPage(c)
  BY <1>1, <1>2, NoPageKeeps
<1>3. CASE ~NoPage(c)
  <2>1. UNCHANGED <<now, allowed, added, made, kept, rows, late, raced>>
    BY <1>3 DEF Look, Others, VtopKeeps, SessionsKeep
  <2>2. PICK result \in {"shown", "refused"} : Ends(c, result)
    BY <1>3 DEF Look
  <2>3. call' = [call EXCEPT ![c] = call'[c]] /\ Shaped(c)' /\ \A t : ~Files(c, t)'
    BY <2>2, EndShaped DEF IInv, Files
  <2>4. codes \subseteq codes' /\ codes' \subseteq Code /\ \A code \in codes' : code.expires <= now + Confirm
    <3>1. call[c].key \in Keys /\ call[c].ask \in Asks
      BY <1>1, Runs DEF IInv, RunType
    <3>2. [key |-> call[c].key, ask |-> call[c].ask, expires |-> now + Confirm] \in Code
      BY <3>1, BoundsAssumption DEF IInv, Types, Code
    <3> QED BY <1>3, <3>2, BoundsAssumption DEF Look, IInv, Types
  <2> QED BY <2>1, <2>3, <2>4, CallMoves DEF IInv, Types
<1> QED BY <1>2, <1>3

\* Who finds the trip free in the list, while nobody is about to file it, is
\* the only one to.
LEMMA CheckKeeps ==
  ASSUME IInv, NEW c \in Calls, Check(c)
  PROVE  IInv'
<1>1. call[c].pc = "check" /\ call[c].pc \in Running
  BY DEF Check, At, Running
<1>2. CASE NoPage(c)
  BY <1>1, <1>2, NoPageKeeps
<1>3. CASE ~NoPage(c)
  <2>1. UNCHANGED <<now, allowed, added, made, kept, rows, late, codes>> /\ raced \subseteq raced'
    BY <1>3 DEF Check, Others, SessionsKeep
  <2>0. PICK list \in Lists :
          /\ IF Listed(list, Sent(c)) THEN Ends(c, "refused") ELSE Goes(c, "form")
          /\ raced' = raced \cup (IF SendUnderWay(c, Sent(c)) \/ Hidden(list, Sent(c))
                                 THEN {Trip[Sent(c)]} ELSE {})
    BY <1>3 DEF Check
  <2>2. CASE Ends(c, "refused")
    <3>1. call' = [call EXCEPT ![c] = call'[c]] /\ Shaped(c)' /\ \A t : ~Files(c, t)'
      BY <2>2, EndShaped DEF IInv, Files
    <3>2. CallsShaped' /\ LateShown'
      BY <2>1, <3>1, OneCall, LateKeeps DEF IInv
    <3>3. \A d \in Calls \ {c} : call'[d] = call[d]
      BY <3>1 DEF IInv, CallsShaped
    <3>4. FiledApart'
      BY <2>1, <3>1, <3>3, Quiet DEF IInv, Mine, Files, Asked
    <3> QED BY <2>1, <3>2, <3>4 DEF IInv, Types
  <2>3. CASE ~Listed(list, Sent(c)) /\ Goes(c, "form")
    <3>1. call[c] \in RunType /\ call[c].sends /\ Shown(Send(c))
      BY <1>1, Runs DEF IInv
    <3>2. /\ call' = [call EXCEPT ![c] = call'[c]]
          /\ call'[c] = [call[c] EXCEPT !.pc = "form"]
          /\ \A d \in Calls \ {c} : call'[d] = call[d]
      BY <2>3 DEF Goes, IInv, CallsShaped
    <3>3. "form" \in Running
      BY DEF Running
    <3>4. /\ call'[c] \in RunType /\ Send(c)' = Send(c) /\ call'[c].pc = "form"
          /\ call'[c].ask = call[c].ask /\ call'[c].sends
      BY <3>1, <3>2, <3>3 DEF RunType, Send
    <3>5. Shown(Send(c))'
      BY <2>1, <3>1, <3>4 DEF Shown
    <3>6. CallsShaped' /\ LateShown'
      <4>1. Shaped(c)'
        BY <3>4, <3>5 DEF Shaped
      <4> QED BY <2>1, <3>2, <4>1, OneCall, LateKeeps DEF IInv
    <3>7. ASSUME NEW t \in Trips PROVE OneFiling(t)'
      <4>1. Mine(t)' = Mine(t) /\ \A d \in Calls \ {c} : Files(d, t)' <=> Files(d, t)
        BY <2>1, <3>2 DEF Mine, Files, Asked
      <4>2. CASE ~Asked(call[c], t)
        <5>1. ~Files(c, t)'
          BY <3>4, <4>2 DEF Files, Asked
        <5> QED BY <2>1, <4>1, <5>1 DEF IInv, FiledApart, OneFiling
      <4>3. CASE Asked(call[c], t)
        <5> SUFFICES ASSUME t \notin raced' PROVE OneFiling(t)'
          BY DEF OneFiling
        <5>1. ~SendUnderWay(c, Sent(c)) /\ ~Hidden(list, Sent(c))
          BY <2>0, <4>3 DEF Asked, Sent
        <5>2. \A m \in late : ~Asked(m, t)
          BY <4>3, <5>1 DEF SendUnderWay, Asked, Sent
        <5>3. \A d \in Calls \ {c} : ~Files(d, t)
          BY <4>3, <5>1 DEF SendUnderWay, Files, Asked, Sent
        <5>4. Mine(t) = {}
          BY <2>3, <4>3, <5>1 DEF Hidden, Listed, Mine, Asked, Sent
        <5> QED BY <2>1, <4>1, <5>2, <5>3, <5>4 DEF OneFiling
      <4> QED BY <4>2, <4>3
    <3> QED BY <2>1, <3>6, <3>7 DEF IInv, Types, FiledApart
  <2> QED BY <2>0, <2>2, <2>3
<1> QED BY <1>2, <1>3

\* A call that goes on from the form with an application is still the one that
\* files; with a cancellation it has seen the row waiting.
LEMMA FormKeeps ==
  ASSUME IInv, NEW c \in Calls, Form(c)
  PROVE  IInv'
<1>1. call[c].pc = "form" /\ call[c].pc \in Running
  BY DEF Form, At, Running
<1>2. CASE NoPage(c)
  BY <1>1, <1>2, NoPageKeeps
<1>3. CASE ~NoPage(c)
  <2>1. UNCHANGED <<now, allowed, added, made, kept, rows, late, raced, codes>>
    BY <1>3 DEF Form, Others, VtopKeeps, SessionsKeep
  <2>2. call' = [call EXCEPT ![c] = call'[c]] /\ Shaped(c)' /\ \A t : Files(c, t)' => Files(c, t)
    <3>1. CASE Ends(c, "refused")
      BY <3>1, EndShaped DEF IInv, Files
    <3>2. ASSUME NEW list \in Lists,
                 call[c].ask.op = "apply" \/ Cancellable(Sent(c)) \cap list # {},
                 call' = [call EXCEPT ![c].pc = "post", ![c].seen = list]
          PROVE  call' = [call EXCEPT ![c] = call'[c]] /\ Shaped(c)' /\ \A t : Files(c, t)' => Files(c, t)
      <4>1. call[c] \in RunType /\ call[c].sends /\ Shown(Send(c))
        BY <1>1, Runs DEF IInv
      <4>2. /\ call' = [call EXCEPT ![c] = call'[c]]
            /\ call'[c] = [call[c] EXCEPT !.pc = "post", !.seen = list]
        BY <3>2 DEF IInv, CallsShaped
      <4>3. "post" \in Running /\ list \in SUBSET Row
        BY DEF Running, Lists, IInv, Types
      <4>4. /\ call'[c] \in RunType /\ Send(c)' = Send(c) /\ call'[c].pc = "post"
            /\ call'[c].ask = call[c].ask /\ call'[c].seen = list
            /\ call'[c].sends = call[c].sends
        <5>1. call'[c] \in RunType
          BY <4>1, <4>2, <4>3 DEF RunType
        <5>2. /\ call'[c].pc = "post" /\ call'[c].ask = call[c].ask /\ call'[c].seen = list
              /\ call'[c].sends = call[c].sends /\ call'[c].key = call[c].key
              /\ call'[c].began = call[c].began
          <6>1. {"pc", "ask", "seen", "sends", "key", "began"} \subseteq DOMAIN call[c]
            BY <4>1 DEF RunType
          <6> QED BY <4>2, <6>1
        <5> QED BY <5>1, <5>2 DEF Send
      <4>5. Shown(Send(c))'
        BY <2>1, <4>1, <4>4 DEF Shown
      <4>6. call[c].ask.op = "cancel" => \E r \in list : r.id = Sent(c) /\ r.waits
        BY <3>2 DEF Cancellable
      <4>7. Shaped(c)'
        BY <4>1, <4>4, <4>5, <4>6 DEF Shaped, Sent
      <4> QED BY <1>1, <4>2, <4>4, <4>7 DEF Files, Asked
    <3> QED BY <1>3, <3>1, <3>2 DEF Form
  <2> QED BY <2>1, <2>2, CallMoves DEF IInv, Types
<1> QED BY <1>2, <1>3

\* VTOP's list grows by one row at most, of the trip that was asked for.
LEMMA FiledKeeps ==
  ASSUME Types, NEW key \in Keys \cup {Student}, NEW req \in Requests, Filed(key, req)
  PROVE  /\ added' \in Nat /\ rows' \subseteq Row /\ IsFiniteSet(rows')
         /\ \A r \in rows' : r.id <= added'
         /\ Cardinality(rows') = Cardinality(rows) + 1 /\ Cardinality(rows) \in Nat
         /\ \A t : Mine(t)' \subseteq Mine(t) \cup {r \in rows' : r.by = key /\ Trip[req] = t}
         /\ \E new : rows' = rows \cup {new}
<1> DEFINE new == [id |-> added + 1, req |-> req, by |-> key, waits |-> TRUE]
<1>1. /\ added \in Nat /\ added' = added + 1 /\ added < MaxIds /\ rows' = rows \cup {new}
      /\ rows \subseteq Row /\ IsFiniteSet(rows) /\ \A r \in rows : r.id <= added
  BY DEF Filed, Types
<1>2. new \in Row
  BY <1>1, BoundsAssumption DEF Row, Ids
<1>3. new \notin rows
  BY <1>1
<1>4. /\ IsFiniteSet(rows') /\ Cardinality(rows') = Cardinality(rows) + 1
      /\ Cardinality(rows) \in Nat
  BY <1>1, <1>3, FS_AddElement, FS_CardinalityType
<1>5. \A r \in rows' : r.id <= added'
  <2>1. \A r \in rows : r.id \in Nat
    BY <1>1 DEF Row, Ids
  <2> QED BY <1>1, <2>1
<1>6. \A t : Mine(t)' \subseteq Mine(t) \cup {r \in rows' : r.by = key /\ Trip[req] = t}
  BY <1>1 DEF Mine
<1>7. added' \in Nat /\ rows' \subseteq Row
  <2>1. added' \in Nat
    BY <1>1
  <2> HIDE DEF new
  <2> QED BY <1>1, <1>2, <2>1
<1>8. \E x : rows' = rows \cup {x}
  <2> HIDE DEF new
  <2> QED BY <1>1
<1> QED BY <1>4, <1>5, <1>6, <1>7, <1>8

LEMMA HandledKeeps ==
  ASSUME Types, NEW send \in SendType, Handled(send)
  PROVE  /\ added' \in Nat /\ rows' \subseteq Row /\ IsFiniteSet(rows')
         /\ \A r \in rows' : r.id <= added'
         /\ \A t : \/ Mine(t)' \subseteq Mine(t)
                   \/ Asked(send, t) /\ \E new : Mine(t)' \subseteq Mine(t) \cup {new}
<1>1. CASE send.ask.op = "apply" /\ Filed(send.key, send.ask.what)
  <2>1. send.key \in Keys /\ send.ask.what \in Requests
    BY <1>1 DEF SendType, Asks, Applying, Cancelling
  <2>2. \A t : Mine(t)' \subseteq Mine(t) \cup {r \in rows' : r.by = send.key /\ Trip[send.ask.what] = t}
    BY <1>1, <2>1, FiledKeeps
  <2>3. PICK new : rows' = rows \cup {new}
    BY <1>1, <2>1, FiledKeeps
  <2>4. \A t : \/ Mine(t)' \subseteq Mine(t)
               \/ Asked(send, t) /\ Mine(t)' \subseteq Mine(t) \cup {new}
    BY <1>1, <2>2, <2>3 DEF Asked, Mine
  <2> QED BY <1>1, <2>1, <2>4, FiledKeeps
<1>2. CASE UNCHANGED added /\ rows' \subseteq rows
  <2>1. IsFiniteSet(rows')
    BY <1>2, FS_Subset DEF Types
  <2> QED BY <1>2, <2>1 DEF Types, Mine
<1> QED BY <1>1, <1>2 DEF Handled

\* The list before and after tells what VTOP did with the send.
LEMMA AnswerShaped ==
  ASSUME IInv, NEW c \in Calls, call[c].pc = "post", Handled(Send(c)), Answer(c)
  PROVE  /\ call' = [call EXCEPT ![c] = call'[c]] /\ Shaped(c)'
         /\ call'[c].pc \in Results
<1>1. /\ call[c] \in RunType /\ call[c].ask \in Asks
      /\ call[c].ask.op = "cancel" => \E r \in call[c].seen : r.id = Sent(c) /\ r.waits
  BY Runs DEF IInv, Running, RunType
<1>2. PICK page \in Pages :
        LET result == IF call[c].ask.op = "apply"
                      THEN IF Applied(c, page) THEN "applied" ELSE "not_applied"
                      ELSE IF Cancelled(c, page) THEN "cancelled" ELSE "not_cancelled"
            fair == rows = call[c].seen /\ Truthful(page)
        IN call' = [call EXCEPT ![c] = Ended(result, fair, page.list, rows' # rows)]
  BY DEF Answer
<1> DEFINE truth == rows = call[c].seen /\ Truthful(page)
<1>3. PICK fair \in BOOLEAN : (fair <=> truth) /\ (truth) = fair
  <2>1. \A b \in BOOLEAN : \E fair \in BOOLEAN : (fair <=> b) /\ b = fair
    OBVIOUS
  <2>2. truth \in BOOLEAN
    BY Zenon DEF Truthful
  <2> HIDE DEF truth
  <2> QED BY <2>1, <2>2, Zenon
<1>14. PICK done \in BOOLEAN : (done <=> rows' # rows) /\ (rows' # rows) = done
  <2>1. \A b \in BOOLEAN : \E done \in BOOLEAN : (done <=> b) /\ b = done
    OBVIOUS
  <2>2. (rows' # rows) \in BOOLEAN
    OBVIOUS
  <2> QED BY <2>1, <2>2, Zenon
<1>4. PICK result \in {"applied", "not_applied", "cancelled", "not_cancelled"} :
        /\ call' = [call EXCEPT ![c] = Ended(result, truth, page.list, rows' # rows)]
        /\ call[c].ask.op = "apply" => result = IF Applied(c, page) THEN "applied" ELSE "not_applied"
        /\ call[c].ask.op # "apply" => result = IF Cancelled(c, page) THEN "cancelled" ELSE "not_cancelled"
  BY <1>2
<1>5. call' = [call EXCEPT ![c] = [pc |-> result, fair |-> fair, listed |-> page.list, done |-> done]]
  <2> HIDE DEF truth
  <2> QED BY <1>3, <1>14, <1>4, Zenon DEF Ended
<1>6. /\ call'[c] = [pc |-> result, fair |-> fair, listed |-> page.list, done |-> done]
      /\ call' = [call EXCEPT ![c] = call'[c]]
  BY <1>5 DEF IInv, CallsShaped
<1>7. call'[c] \in EndType
  <2>1. result \in Results /\ page.list \in BOOLEAN
    BY DEF Results, Pages
  <2> QED BY <1>6, <2>1 DEF EndType
<1>8. ASSUME rows = call[c].seen, call[c].ask.op = "apply", page.list
      PROVE  rows' # rows <=> OneMore(c, page)
  <2>1. Cardinality(call[c].seen) = Cardinality(rows) /\ Cardinality(rows) \in Nat
    <3>1. Cardinality(call[c].seen) = Cardinality(rows)
      BY <1>8, Zenon
    <3> QED BY <3>1, FS_CardinalityType DEF IInv, Types
  <2>2. OneMore(c, page) <=> Cardinality(rows') > Cardinality(rows)
    BY <1>8, <2>1 DEF OneMore
  <2>3. CASE Filed(call[c].key, Sent(c))
    <3>1. call[c].key \in Keys /\ Sent(c) \in Requests
      BY <1>1, <1>8 DEF RunType, Asks, Applying, Cancelling, Sent
    <3>2. Cardinality(rows') = Cardinality(rows) + 1
      BY <2>3, <3>1, FiledKeeps DEF IInv
    <3>3. OneMore(c, page)
      BY <2>1, <2>2, <3>2
    <3>4. rows' # rows
      <4> SUFFICES ASSUME rows' = rows PROVE FALSE
        OBVIOUS
      <4>1. Cardinality(rows') = Cardinality(rows)
        BY Zenon
      <4> QED BY <2>1, <3>2, <4>1
    <3> QED BY <3>3, <3>4
  <2>4. CASE UNCHANGED rows
    <3>1. Cardinality(rows') = Cardinality(rows)
      BY <2>4, Zenon
    <3>2. ~OneMore(c, page)
      BY <2>1, <2>2, <3>1
    <3> QED BY <2>4, <3>2
  <2> QED BY <1>8, <2>3, <2>4 DEF Handled, Send, Sent
<1>9. ASSUME rows = call[c].seen, call[c].ask.op # "apply"
      PROVE  rows' # rows <=> NoneCarries(Sent(c))
  <2>1. PICK r \in rows : r.id = Sent(c) /\ r.waits
    BY <1>1, <1>9 DEF Asks, Applying, Cancelling
  <2>2. CASE rows' = rows \ Cancellable(Sent(c))
    <3>1. r \notin rows' /\ NoneCarries(Sent(c))
      BY <2>1, <2>2 DEF Cancellable, NoneCarries
    <3> QED BY <2>1, <3>1
  <2>3. CASE UNCHANGED rows
    <3>1. ~NoneCarries(Sent(c))
      BY <2>1, <2>3 DEF NoneCarries
    <3> QED BY <2>3, <3>1
  <2> QED BY <1>9, <2>2, <2>3 DEF Handled, Send, Sent
<1>10. /\ call'[c].fair = fair /\ call'[c].done = done /\ call'[c].pc = result
       /\ call'[c].listed = page.list
  BY <1>6
\* Without a word on the page the list decides; a word decides for itself.
<1>11. ASSUME fair
       PROVE  /\ result \in {"applied", "cancelled"} => done
              /\ result \in {"not_applied", "not_cancelled"} /\ page.list => ~done
  <2>1. /\ rows = call[c].seen
        /\ page.notice => rows' = rows
        /\ page.success => rows' # rows
    BY <1>3, <1>11 DEF Truthful
  <2>2. CASE call[c].ask.op = "apply"
    <3>1. OneMore(c, page) => page.list
      BY DEF OneMore
    <3>2. Applied(c, page) => done
      BY <1>8, <1>14, <2>1, <2>2, <3>1 DEF Applied
    <3>3. page.list /\ ~Applied(c, page) => ~done
      BY <1>8, <1>14, <2>1, <2>2 DEF Applied
    <3> QED BY <1>4, <2>2, <3>2, <3>3
  <2>3. CASE call[c].ask.op # "apply"
    <3>1. Cancelled(c, page) => done
      BY <1>9, <1>14, <2>1, <2>3 DEF Cancelled
    <3>2. page.list /\ ~Cancelled(c, page) => ~done
      BY <1>9, <1>14, <2>1, <2>3 DEF Cancelled
    <3> QED BY <1>4, <2>3, <3>1, <3>2
  <2> QED BY <2>2, <2>3
<1>13. call'[c].pc \in Results
  BY <1>7 DEF EndType
<1> HIDE DEF truth
<1> QED BY <1>6, <1>7, <1>10, <1>11, <1>13 DEF Shaped

\* Of what belongs to a trip nothing is new.
LEMMA NoneNew ==
  ASSUME NEW t, OneFiling(t), raced \subseteq raced', Mine(t)' \subseteq Mine(t),
         \A c \in Calls : Files(c, t)' => Files(c, t), late' \subseteq late
  PROVE  OneFiling(t)'
BY DEF OneFiling, Asked

\* The send takes the place of the call, and the row that of the send.
LEMMA PostKeeps ==
  ASSUME IInv, NEW c \in Calls, Post(c)
  PROVE  IInv'
<1>1. UNCHANGED <<now, allowed, made, raced, codes>> /\ call[c].pc = "post" /\ call[c].pc \in Running
  BY DEF Post, Others, At, Running
<1>2. call[c] \in RunType /\ call[c].sends /\ Shown(Send(c)) /\ Send(c) \in SendType
  <2>1. call[c] \in RunType /\ call[c].sends /\ Shown(Send(c))
    BY <1>1, Runs DEF IInv
  <2> QED BY <2>1 DEF Send, SendType, RunType
<1>3. /\ call' = [call EXCEPT ![c] = call'[c]] /\ Shaped(c)' /\ kept' \in [Keys -> Nat]
      /\ call'[c].pc \notin {"form", "post"}
  <2>1. CASE Handled(Send(c)) /\ Answer(c) /\ UNCHANGED kept
    BY <1>1, <2>1, AnswerShaped DEF IInv, Types, Results
  <2>2. CASE Rejected(c)
    BY <1>1, <2>2, RejectedShaped
  <2>3. CASE Ends(c, "error") /\ UNCHANGED kept
    BY <2>3, EndShaped DEF IInv, Types
  <2> QED BY <2>1, <2>2, <2>3 DEF Post
<1>4. CallsShaped' /\ \A t : ~Files(c, t)'
  BY <1>1, <1>3, OneCall DEF IInv, Files
<1>5. \A d \in Calls \ {c} : call'[d] = call[d]
  BY <1>3 DEF IInv, CallsShaped
<1>6. \A t : Files(c, t) <=> Asked(Send(c), t)
  BY <1>1 DEF Files, Asked, Send
<1>7. \A t : \A d \in Calls \ {c} : Files(d, t)' <=> Files(d, t)
  BY <1>5 DEF Files, Asked
<1>8. CASE UNCHANGED <<rows, added, late>>
  <2>1. FiledApart'
    BY <1>1, <1>4, <1>7, <1>8, Quiet DEF IInv, Mine
  <2> QED BY <1>1, <1>3, <1>4, <1>8, <2>1, LateKeeps DEF IInv, Types
<1>9. CASE Handled(Send(c)) /\ UNCHANGED late
  <2>1. /\ added' \in Nat /\ rows' \subseteq Row /\ IsFiniteSet(rows')
        /\ \A r \in rows' : r.id <= added'
        /\ \A t : \/ Mine(t)' \subseteq Mine(t)
                  \/ Asked(Send(c), t) /\ \E new : Mine(t)' \subseteq Mine(t) \cup {new}
    BY <1>2, <1>9, HandledKeeps DEF IInv
  <2>2. ASSUME NEW t \in Trips PROVE OneFiling(t)'
    <3>1. CASE Mine(t)' \subseteq Mine(t)
      BY <1>1, <1>4, <1>7, <1>9, <3>1 DEF IInv, FiledApart, OneFiling, Asked
    <3>2. CASE Asked(Send(c), t) /\ \E new : Mine(t)' \subseteq Mine(t) \cup {new}
      <4> SUFFICES ASSUME t \notin raced PROVE OneFiling(t)'
        BY <1>1 DEF OneFiling
      <4>1. /\ Mine(t) = {} /\ \A m \in late : ~Asked(m, t)
            /\ \A d \in Calls \ {c} : ~Files(d, t)
        BY <1>6, <3>2 DEF IInv, FiledApart, OneFiling, Asked
      <4>2. \A r, q \in Mine(t)' : r = q
        BY <3>2, <4>1
      <4> QED BY <1>4, <1>7, <1>9, <4>1, <4>2 DEF OneFiling, Asked
    <3> QED BY <2>1, <3>1, <3>2
  <2> QED BY <1>1, <1>3, <1>4, <1>9, <2>1, <2>2, LateKeeps DEF IInv, Types, FiledApart
<1>10. CASE late' = late \cup {Send(c)} /\ UNCHANGED <<rows, added>>
  <2>1. LateShown'
    BY <1>1, <1>2, <1>10 DEF IInv, LateShown, Shown
  <2>2. ASSUME NEW t \in Trips PROVE OneFiling(t)'
    <3>1. Mine(t)' = Mine(t)
      BY <1>10 DEF Mine
    <3>2. CASE ~Asked(Send(c), t)
      BY <1>1, <1>4, <1>7, <1>10, <3>1, <3>2 DEF IInv, FiledApart, OneFiling, Asked
    <3>3. CASE Asked(Send(c), t)
      BY <1>1, <1>4, <1>6, <1>7, <1>10, <3>1, <3>3 DEF IInv, FiledApart, OneFiling, Asked
    <3> QED BY <3>2, <3>3
  <2> QED BY <1>1, <1>2, <1>3, <1>4, <1>10, <2>1, <2>2 DEF IInv, Types, FiledApart
<1> QED BY <1>8, <1>9, <1>10 DEF Post

LEMMA HandledLateKeeps ==
  ASSUME IInv, NEW m \in late, HandledLate(m)
  PROVE  IInv'
<1>1. UNCHANGED <<now, allowed, made, kept, raced, codes, call>> /\ late' = late \ {m}
      /\ Handled(m) /\ m \in SendType
  BY DEF HandledLate, Others, SessionsKeep, IInv, Types
<1>2. /\ added' \in Nat /\ rows' \subseteq Row /\ IsFiniteSet(rows')
      /\ \A r \in rows' : r.id <= added'
      /\ \A t : \/ Mine(t)' \subseteq Mine(t)
                \/ Asked(m, t) /\ \E new : Mine(t)' \subseteq Mine(t) \cup {new}
  BY <1>1, HandledKeeps DEF IInv
<1>3. \A t : \A c \in Calls : Files(c, t)' <=> Files(c, t)
  BY <1>1 DEF Files, Asked
<1>4. ASSUME NEW t \in Trips PROVE OneFiling(t)'
  <2>1. CASE Mine(t)' \subseteq Mine(t)
    BY <1>1, <1>3, <2>1 DEF IInv, FiledApart, OneFiling, Asked
  <2>2. CASE Asked(m, t) /\ \E new : Mine(t)' \subseteq Mine(t) \cup {new}
    <3> SUFFICES ASSUME t \notin raced PROVE OneFiling(t)'
      BY <1>1 DEF OneFiling
    <3>1. /\ Mine(t) = {} /\ \A n \in late \ {m} : ~Asked(n, t)
          /\ \A c \in Calls : ~Files(c, t)
      BY <2>2 DEF IInv, FiledApart, OneFiling, Asked
    <3>2. \A r, q \in Mine(t)' : r = q
      BY <2>2, <3>1
    <3> QED BY <1>1, <1>3, <3>1, <3>2 DEF OneFiling, Asked
  <2> QED BY <1>2, <2>1, <2>2
<1> QED BY <1>1, <1>2, <1>4, NoCall, LateKeeps DEF IInv, Types, FiledApart

\* Calls and sends are as they were, and so are the rows of the tools.
LEMMA WorldMoves ==
  ASSUME IInv, UNCHANGED <<late, raced, codes, call>>,
         \A t \in Trips : Mine(t)' \subseteq Mine(t)
  PROVE  CallsShaped' /\ LateShown' /\ FiledApart'
<1>1. \A t \in Trips, c \in Calls : Files(c, t)' => Files(c, t)
  BY DEF Files, Asked
<1>2. codes \subseteq codes' /\ late' \subseteq late /\ raced \subseteq raced' /\ UNCHANGED call
  OBVIOUS
<1>3. CallsShaped' /\ LateShown'
  BY <1>2, NoCall, LateKeeps DEF IInv
<1>4. FiledApart'
  BY <1>1, <1>2, Quiet DEF IInv
<1> QED BY <1>3, <1>4

LEMMA StudentFilesKeeps ==
  ASSUME IInv, NEW req \in Requests, StudentFiles(req)
  PROVE  IInv'
<1>1. UNCHANGED <<now, allowed, late, raced, made, kept, codes, call>> /\ Filed(Student, req)
  BY DEF StudentFiles, SessionsKeep
<1>2. /\ added' \in Nat /\ rows' \subseteq Row /\ IsFiniteSet(rows')
      /\ \A r \in rows' : r.id <= added'
      /\ \A t : Mine(t)' \subseteq Mine(t) \cup {r \in rows' : r.by = Student /\ Trip[req] = t}
  BY <1>1, FiledKeeps DEF IInv
<1>3. \A t \in Trips : Mine(t)' \subseteq Mine(t)
  BY <1>2 DEF Mine
<1> QED BY <1>1, <1>2, <1>3, WorldMoves DEF IInv, Types

LEMMA AcceptKeeps ==
  ASSUME IInv, NEW r \in rows, Accept(r)
  PROVE  IInv'
<1> DEFINE accepted == [r EXCEPT !.waits = FALSE]
<1>1. UNCHANGED <<now, allowed, added, late, raced, made, kept, codes, call>>
      /\ rows' = (rows \ {r}) \cup {accepted}
  BY DEF Accept, SessionsKeep
<1>2. r \in Row /\ r.id <= added
  BY DEF IInv, Types
<1>3. accepted \in Row /\ accepted.id = r.id /\ accepted.by = r.by /\ accepted.req = r.req
  BY <1>2 DEF Row
<1>4. IsFiniteSet(rows')
  <2>1. IsFiniteSet(rows \ {r})
    BY FS_Subset DEF IInv, Types
  <2> HIDE DEF accepted
  <2> QED BY <1>1, <2>1, FS_AddElement
<1> HIDE DEF accepted
<1>5. rows' \subseteq Row /\ \A q \in rows' : q.id <= added'
  BY <1>1, <1>2, <1>3 DEF IInv, Types
<1>6. ASSUME NEW t \in Trips PROVE OneFiling(t)'
  <2>1. \A q \in Mine(t)' : q \in Mine(t) \/ (q = accepted /\ r \in Mine(t))
    BY <1>1, <1>3 DEF Mine
  <2>2. accepted \in Mine(t)' => Mine(t)' = {accepted} \/ t \in raced
    BY <1>1, <1>3 DEF Mine, IInv, FiledApart, OneFiling
  <2>3. \A c \in Calls : Files(c, t)' <=> Files(c, t)
    BY <1>1 DEF Files, Asked
  <2> QED BY <1>1, <2>1, <2>2, <2>3 DEF IInv, FiledApart, OneFiling, Asked
<1>7. CallsShaped' /\ LateShown'
  <2>1. codes \subseteq codes' /\ late' \subseteq late /\ UNCHANGED call
    BY <1>1
  <2> QED BY <2>1, NoCall, LateKeeps DEF IInv
<1> QED BY <1>1, <1>4, <1>5, <1>6, <1>7 DEF IInv, Types, FiledApart

LEMMA WorldKeeps ==
  ASSUME IInv,
         \/ \E s \in 1..made : Drop(s)
         \/ \E key \in Keys : Lapse(key) \/ Forbid(key)
         \/ Tick
         \/ UNCHANGED vars
  PROVE  IInv'
<1>1. /\ UNCHANGED <<rows, added, late, raced, made, codes, call>>
      /\ now' \in {now, now + 1} /\ allowed' \subseteq allowed
      /\ kept' = kept \/ \E key \in Keys : kept' = [kept EXCEPT ![key] = NoSession]
  BY DEF Drop, Lapse, Forbid, Tick, VtopKeeps, SessionsKeep, vars
<1>2. kept' \in [Keys -> Nat]
  BY <1>1 DEF IInv, Types, NoSession
<1>3. \A code \in codes' : code.expires <= now' + Confirm
  <2>1. \A code \in codes : code.expires \in Nat /\ code.expires <= now + Confirm
    BY DEF IInv, Types, Code
  <2>2. now' \in Nat /\ now <= now' /\ now \in Nat
    BY <1>1 DEF IInv, Types
  <2> QED BY <1>1, <2>1, <2>2, BoundsAssumption
<1>4. \A t \in Trips : Mine(t)' \subseteq Mine(t)
  BY <1>1 DEF Mine
<1>5. CallsShaped' /\ LateShown' /\ FiledApart'
  BY <1>1, <1>4, WorldMoves
<1>6. now' \in Nat
  BY <1>1 DEF IInv, Types
<1> QED BY <1>1, <1>2, <1>3, <1>5, <1>6 DEF IInv, Types

LEMMA InitKeeps == Init => IInv
<1> SUFFICES ASSUME Init PROVE IInv
  OBVIOUS
<1>1. Types
  BY FS_EmptySet DEF Init, Types, NoSession
<1>2. CallsShaped /\ LateShown
  BY DEF Init, CallsShaped, LateShown, Shaped
<1>3. FiledApart
  BY DEF Init, FiledApart, OneFiling, Mine, Files
<1> QED BY <1>1, <1>2, <1>3 DEF IInv

LEMMA NextKeeps == IInv /\ [Next]_vars => IInv'
<1> SUFFICES ASSUME IInv, [Next]_vars PROVE IInv'
  OBVIOUS
<1>1. ASSUME NEW c \in Calls, Begin(c) \/ CallStep(c) PROVE IInv'
  BY <1>1, BeginKeeps, SessionKeeps, LookKeeps, CheckKeeps, FormKeeps, PostKeeps DEF CallStep
<1>2. ASSUME NEW m \in late, HandledLate(m) PROVE IInv'
  BY <1>2, HandledLateKeeps
<1>3. ASSUME NEW req \in Requests, StudentFiles(req) PROVE IInv'
  BY <1>3, StudentFilesKeeps
<1>4. ASSUME NEW r \in rows, Accept(r) PROVE IInv'
  BY <1>4, AcceptKeeps
<1>5. CASE \/ \E s \in 1..made : Drop(s)
           \/ \E key \in Keys : Lapse(key) \/ Forbid(key)
           \/ Tick
           \/ UNCHANGED vars
  BY <1>5, WorldKeeps
<1> QED BY <1>1, <1>2, <1>3, <1>4, <1>5 DEF Next

LEMMA Invariant == Spec => []IInv
BY InitKeeps, NextKeeps, PTL DEF Spec

\* outings.rs applies in two calls so that nothing is filed twice: of the rows
\* that tools filed, a trip has one at most, unless its list was read while
\* another send for it was on its way.
THEOREM FiledAtMostOnce == Spec => []FiledOnce
<1>1. IInv => FiledOnce
  <2> SUFFICES ASSUME IInv, NEW t \in Trips \ raced PROVE Cardinality(Mine(t)) <= 1
    BY DEF FiledOnce, Mine, Trips
  <2>1. \A r, q \in Mine(t) : r = q
    BY DEF IInv, FiledApart, OneFiling
  <2>2. CASE Mine(t) = {}
    <3>1. Cardinality(Mine(t)) = 0
      BY <2>2, FS_EmptySet
    <3> QED BY <3>1
  <2>3. CASE Mine(t) # {}
    <3>1. PICK r : Mine(t) = {r}
      BY <2>1, <2>3
    <3>2. Cardinality(Mine(t)) = 1
      BY <3>1, FS_Singleton
    <3> QED BY <3>2
  <2> QED BY <2>2, <2>3
<1> QED BY <1>1, Invariant, PTL

\* What parse_apply_response and parse_cancel_response make of VTOP's page is
\* what VTOP did, when nobody else changed the list since the form was read
\* and the words on the page are true; and that a request was not filed or
\* cancelled only a page with the list can say.
THEOREM ReportsTruly == Spec => []ReportsWhatVtopDid
<1>1. IInv => ReportsWhatVtopDid
  <2> SUFFICES ASSUME IInv, NEW c \in Calls,
                      call[c].pc \in {"applied", "not_applied", "cancelled", "not_cancelled"}
               PROVE  /\ call[c].pc \in {"applied", "cancelled"} /\ call[c].fair => call[c].done
                      /\ call[c].pc \in {"not_applied", "not_cancelled"} /\ call[c].fair
                           /\ call[c].listed => ~call[c].done
    BY DEF ReportsWhatVtopDid
  <2>1. Shaped(c)
    BY DEF IInv, CallsShaped
  <2>2. call[c] # [pc |-> "free"]
    OBVIOUS
  <2>3. call[c] \notin RunType
    BY DEF RunType, Running
  <2> QED BY <2>1, <2>2, <2>3 DEF Shaped
<1> QED BY <1>1, Invariant, PTL

\* A step that adds a row of a tool's or takes one away handles a send of it
\* that was shown.
Acts ==
  /\ \A r \in rows' : r.by # Student /\ (\A q \in rows : q.id # r.id)
       => \E send \in UnderWay :
            send.key = r.by /\ send.ask = [op |-> "apply", what |-> r.req] /\ Shown(send)
  /\ \A r \in rows : (\A q \in rows' : q.id # r.id)
       => \E send \in UnderWay :
            send.ask = [op |-> "cancel", what |-> r.id] /\ Shown(send)

LEMMA HandledActs ==
  ASSUME NEW send \in UnderWay, send \in SendType, Shown(send), Handled(send)
  PROVE  Acts
<1>1. CASE send.ask.op = "apply" /\ Filed(send.key, send.ask.what)
  <2>1. send.ask \in Applying
    BY <1>1 DEF SendType, Asks, Applying, Cancelling
  <2>2. send.ask = [op |-> "apply", what |-> send.ask.what]
    BY <2>1 DEF Applying
  <2>3. rows \subseteq rows'
    BY <1>1 DEF Filed
  <2>4. \A r \in rows' \ rows : r.by = send.key /\ r.req = send.ask.what
    BY <1>1 DEF Filed
  <2> QED BY <2>2, <2>3, <2>4 DEF Acts
<1>2. CASE send.ask.op = "cancel" /\ rows' = rows \ Cancellable(send.ask.what)
  <2>1. send.ask \in Cancelling
    BY <1>2 DEF SendType, Asks, Applying, Cancelling
  <2>2. send.ask = [op |-> "cancel", what |-> send.ask.what]
    BY <2>1 DEF Cancelling
  <2>3. \A r \in rows \ rows' : r.id = send.ask.what
    BY <1>2 DEF Cancellable
  <2> QED BY <1>2, <2>2, <2>3 DEF Acts
<1>3. CASE UNCHANGED rows
  BY <1>3 DEF Acts
<1> QED BY <1>1, <1>2, <1>3 DEF Handled

LEMMA NextActs == IInv /\ [Next]_vars => [Acts]_vars
<1> SUFFICES ASSUME IInv, Next PROVE Acts
  OBVIOUS
<1>1. CASE UNCHANGED rows
  BY <1>1 DEF Acts
<1>2. ASSUME NEW c \in Calls, Post(c), ~UNCHANGED rows PROVE Acts
  <2>1. call[c].pc = "post" /\ Handled(Send(c))
    BY <1>2 DEF Post, At
  <2>2. call[c] \in RunType /\ Shown(Send(c))
    <3>1. call[c].pc \in Running
      BY <2>1 DEF Running
    <3> QED BY <2>1, <3>1, Runs DEF IInv
  <2>3. Send(c) \in UnderWay
    BY <2>1 DEF UnderWay, At
  <2>4. Send(c) \in SendType
    BY <2>2 DEF Send, SendType, RunType
  <2> QED BY <2>1, <2>2, <2>3, <2>4, HandledActs
<1>3. ASSUME NEW m \in late, HandledLate(m) PROVE Acts
  <2>1. m \in UnderWay /\ m \in SendType /\ Shown(m) /\ Handled(m)
    BY <1>3 DEF HandledLate, UnderWay, IInv, LateShown, Types
  <2> QED BY <2>1, HandledActs
<1>4. ASSUME NEW req \in Requests, StudentFiles(req) PROVE Acts
  BY <1>4 DEF StudentFiles, Filed, Acts
<1>5. ASSUME NEW r \in rows, Accept(r) PROVE Acts
  <2>1. [r EXCEPT !.waits = FALSE].id = r.id
    BY DEF IInv, Types, Row
  <2> QED BY <1>5, <2>1 DEF Accept, Acts
<1>6. ASSUME NEW c \in Calls,
             \/ Begin(c) \/ Session(c) \/ Fetch(c) \/ Fetched(c)
             \/ Expire(c) \/ Look(c) \/ Check(c) \/ Form(c)
      PROVE  UNCHANGED rows
  BY <1>6 DEF Begin, Session, Fetch, Fetched, Expire, Look, Check, Form, NoPage, VtopKeeps
<1>7. ASSUME \/ \E s \in 1..made : Drop(s)
             \/ \E key \in Keys : Lapse(key) \/ Forbid(key)
             \/ Tick
      PROVE  UNCHANGED rows
  BY <1>7 DEF Drop, Lapse, Forbid, Tick, VtopKeeps
<1> QED BY <1>1, <1>2, <1>3, <1>4, <1>5, <1>6, <1>7 DEF Next, CallStep

\* outings.rs: the agent has to show the student a request before it can file
\* it. Whatever a step files or cancels for a key was shown for that key, with
\* a code that was good when the call that sent it began.
THEOREM ActsOnlyAsShown == Spec => ActsAsShown
<1>1. [][Acts]_vars => ActsAsShown
  BY PTL DEF Acts, ActsAsShown
<1> QED BY <1>1, Invariant, NextActs, PTL DEF Spec

(***************************************************************************)
(* The type invariant: sessions are those the edge made, and rows keep     *)
(* their ids apart.                                                        *)
(***************************************************************************)
Bounded ==
  /\ events \in 0..MaxEvents /\ now \in 0..events /\ added \in 0..MaxIds
  /\ made \in 0..MaxSessions /\ edge \in 0..made /\ dead \subseteq 1..made
  /\ kept \in [Keys -> 0..made]
  /\ raced \subseteq Trips

OneRow == \A r, q \in rows : r.id = q.id => r = q

\* A call that reaches VTOP has a session of the edge's.
WithSession == {"fetched", "look", "check", "form", "post"}

RunOf(m) ==
  [pc: Running, key: Keys, ask: Asks, sends: BOOLEAN, began: Nat, session: 0..m,
   retried: BOOLEAN, seen: SUBSET Row]

Typed(c) ==
  \/ call[c] = [pc |-> "free"]
  \/ /\ call[c] \in RunOf(made)
     /\ call[c].pc \in WithSession => call[c].session # NoSession
     /\ call[c].pc = "check" => call[c].ask \in Applying
  \/ call[c] \in EndType

TypeInv == Bounded /\ OneRow /\ \A c \in Calls : Typed(c)

LEMMA OneTyped ==
  ASSUME CallsShaped, made \in Nat, made' \in Nat, made <= made',
         \A c \in Calls : Typed(c),
         NEW c \in Calls, call' = [call EXCEPT ![c] = call'[c]], Typed(c)'
  PROVE  \A d \in Calls : Typed(d)'
<1>1. \A d \in Calls \ {c} : call'[d] = call[d]
  BY DEF CallsShaped
<1> SUFFICES ASSUME NEW d \in Calls \ {c} PROVE Typed(d)'
  OBVIOUS
<1>2. RunOf(made) \subseteq RunOf(made')
  BY DEF RunOf
<1> QED BY <1>1, <1>2 DEF Typed

LEMMA RunsTyped ==
  ASSUME TypeInv, NEW c \in Calls, call[c].pc \in Running
  PROVE  /\ call[c] \in RunOf(made)
         /\ call[c].pc \in WithSession => call[c].session # NoSession
         /\ call[c].pc = "check" => call[c].ask \in Applying
<1>1. call[c] # [pc |-> "free"] /\ call[c] \notin EndType
  BY DEF Running, EndType, Results
<1> QED BY <1>1 DEF TypeInv, Typed

\* A call that goes on, with session s and at pc.
Moves(c, s, pc, retried, seen) ==
  /\ call' = [call EXCEPT ![c] = call'[c]]
  /\ call'[c] = [pc |-> pc, key |-> call[c].key, ask |-> call[c].ask, sends |-> call[c].sends,
                 began |-> call[c].began, session |-> s, retried |-> retried, seen |-> seen]

LEMMA GoesTyped ==
  ASSUME IInv, TypeInv, NEW c \in Calls, call[c].pc \in Running,
         NEW s \in 0..made', NEW pc \in Running, NEW retried \in BOOLEAN, NEW seen \in SUBSET Row,
         pc \in WithSession => s # NoSession, pc = "check" => call[c].ask \in Applying,
         made' \in Nat, made <= made',
         Moves(c, s, pc, retried, seen)
  PROVE  \A d \in Calls : Typed(d)'
<1>1. call[c] \in RunOf(made) /\ made \in Nat
  BY RunsTyped DEF TypeInv, Bounded
<1>2. /\ call[c].key \in Keys /\ call[c].ask \in Asks /\ call[c].sends \in BOOLEAN
      /\ call[c].began \in Nat
  BY <1>1 DEF RunOf
<1>3. call'[c] \in RunOf(made')
  BY <1>2 DEF Moves, RunOf
<1>4. /\ call'[c].pc = pc /\ call'[c].session = s /\ call'[c].ask = call[c].ask
      /\ call' = [call EXCEPT ![c] = call'[c]]
  BY DEF Moves
<1>5. Typed(c)'
  BY <1>3, <1>4 DEF Typed
<1> QED BY <1>1, <1>4, <1>5, OneTyped DEF IInv, TypeInv

LEMMA EndTyped ==
  ASSUME IInv, TypeInv, NEW c \in Calls, NEW result \in Results,
         NEW fair \in BOOLEAN, NEW listed \in BOOLEAN, NEW done \in BOOLEAN,
         made' \in Nat, made <= made',
         call' = [call EXCEPT ![c] = Ended(result, fair, listed, done)]
  PROVE  \A d \in Calls : Typed(d)'
<1>1. /\ call'[c] = [pc |-> result, fair |-> fair, listed |-> listed, done |-> done]
      /\ call' = [call EXCEPT ![c] = call'[c]]
  BY DEF IInv, CallsShaped, Ended
<1>2. Typed(c)'
  BY <1>1 DEF Typed, EndType
<1>3. made \in Nat
  BY DEF TypeInv, Bounded
<1> QED BY <1>1, <1>2, <1>3, OneTyped DEF IInv, TypeInv

\* The session a call gets, and its end without an answer.
LEMMA TriesTyped ==
  ASSUME IInv, TypeInv, NEW c \in Calls, call[c].pc \in Running,
         made' \in Nat, made <= made', NEW s \in 0..made', s # NoSession, Tries(c, s)
  PROVE  \A d \in Calls : Typed(d)'
<1>1. call[c] \in RunOf(made)
  BY RunsTyped
<1>2. PICK pc \in {"look", "check", "form"} :
        /\ call' = [call EXCEPT ![c].session = s, ![c].pc = pc]
        /\ pc = "check" => call[c].ask.op = "apply"
  BY DEF Tries
<1>3. Moves(c, s, pc, call[c].retried, call[c].seen)
  BY <1>1, <1>2 DEF RunOf, IInv, CallsShaped, Moves
<1>4. pc \in Running /\ call[c].retried \in BOOLEAN /\ call[c].seen \in SUBSET Row
  BY <1>1, <1>2 DEF RunOf, Running
<1>5. pc = "check" => call[c].ask \in Applying
  BY <1>1, <1>2 DEF RunOf, Asks, Applying, Cancelling
<1> QED BY <1>3, <1>4, <1>5, GoesTyped

LEMMA PassesTyped ==
  ASSUME IInv, TypeInv, NEW c \in Calls, call[c].pc \in Running,
         made' \in Nat, made <= made', NEW pc \in Running \ WithSession, Goes(c, pc)
  PROVE  \A d \in Calls : Typed(d)'
<1>1. call[c] \in RunOf(made) /\ made \in Nat /\ pc \notin WithSession /\ pc # "check"
  BY RunsTyped DEF TypeInv, Bounded, WithSession
<1>2. Moves(c, call[c].session, pc, call[c].retried, call[c].seen)
  BY <1>1 DEF RunOf, Goes, IInv, CallsShaped, Moves
<1>3. call[c].session \in 0..made' /\ call[c].retried \in BOOLEAN /\ call[c].seen \in SUBSET Row
  BY <1>1 DEF RunOf
<1>4. pc \in Running /\ (pc \in WithSession => call[c].session # NoSession)
      /\ (pc = "check" => call[c].ask \in Applying)
  BY <1>1
<1> QED BY <1>2, <1>3, <1>4, GoesTyped

LEMMA EndsTyped ==
  ASSUME IInv, TypeInv, NEW c \in Calls, NEW result \in {"shown", "refused", "error"}, Ends(c, result),
         made' \in Nat, made <= made'
  PROVE  \A d \in Calls : Typed(d)'
<1>1. result \in Results
  BY DEF Results
<1> QED BY <1>1, EndTyped DEF Ends

LEMMA RejectedTyped ==
  ASSUME IInv, TypeInv, NEW c \in Calls, call[c].pc \in Running, Rejected(c), UNCHANGED made
  PROVE  (\A d \in Calls : Typed(d)') /\ kept' \in [Keys -> 0..made]
<1>1. call[c] \in RunOf(made) /\ made \in Nat /\ made' \in Nat /\ made <= made'
  BY RunsTyped DEF TypeInv, Bounded
<1>2. CASE /\ call' = [call EXCEPT ![c].retried = TRUE, ![c].pc = "expire"]
           /\ kept' = [kept EXCEPT ![call[c].key] = NoSession]
  <2>1. Moves(c, call[c].session, "expire", TRUE, call[c].seen)
    BY <1>1, <1>2 DEF RunOf, IInv, CallsShaped, Moves
  <2>2. call[c].session \in 0..made' /\ call[c].seen \in SUBSET Row /\ "expire" \in Running
        /\ "expire" \notin WithSession /\ "expire" # "check" /\ TRUE \in BOOLEAN
    BY <1>1 DEF RunOf, Running, WithSession
  <2>3. \A d \in Calls : Typed(d)'
    BY <1>1, <2>1, <2>2, GoesTyped
  <2>4. kept' \in [Keys -> 0..made]
    <3>1. 0 \in 0..made
      BY <1>1
    <3> QED BY <1>2, <3>1 DEF TypeInv, Bounded, NoSession
  <2> QED BY <2>3, <2>4
<1>3. CASE Ends(c, "error") /\ UNCHANGED kept
  BY <1>1, <1>3, EndsTyped DEF TypeInv, Bounded
<1> QED BY <1>2, <1>3 DEF Rejected

LEMMA NoPageTyped ==
  ASSUME IInv, TypeInv, NEW c \in Calls, call[c].pc \in Running, NoPage(c)
  PROVE  TypeInv'
<1>1. UNCHANGED <<events, now, rows, added, dead, raced, made, edge>>
  BY DEF NoPage, Others, VtopKeeps
<1>2. made \in Nat /\ made' \in Nat /\ made <= made'
  BY <1>1 DEF TypeInv, Bounded
<1>3. (\A d \in Calls : Typed(d)') /\ kept' \in [Keys -> 0..made]
  <2>1. CASE Rejected(c)
    BY <1>1, <2>1, RejectedTyped
  <2>2. CASE Ends(c, "error") /\ UNCHANGED kept
    BY <1>2, <2>2, EndsTyped DEF TypeInv, Bounded
  <2> QED BY <2>1, <2>2 DEF NoPage
<1> QED BY <1>1, <1>3 DEF TypeInv, Bounded, OneRow

LEMMA BeginTyped ==
  ASSUME IInv, TypeInv, NEW c \in Calls, Begin(c)
  PROVE  TypeInv'
<1>1. UNCHANGED <<events, now, rows, added, dead, raced, made, edge, kept>>
  BY DEF Begin, Others, VtopKeeps, SessionsKeep
<1>2. made \in Nat /\ made' \in Nat /\ made <= made' /\ now \in Nat
  BY <1>1 DEF TypeInv, Bounded
<1>3. PICK key \in Keys, ask \in Asks, sends \in BOOLEAN : Begins(c, key, ask, sends)
  <2>1. PICK key \in allowed, ask \in Asks : \E sends \in BOOLEAN : Begins(c, key, ask, sends)
    BY DEF Begin
  <2>2. key \in Keys
    BY <2>1 DEF IInv, Types
  <2> QED BY <2>1, <2>2
<1>4. call' = [call EXCEPT ![c] = call'[c]]
      /\ call'[c] = [pc |-> "session", key |-> key, ask |-> ask, sends |-> sends, began |-> now,
                     session |-> NoSession, retried |-> FALSE, seen |-> {}]
  BY <1>3 DEF Begins, IInv, CallsShaped
<1>5. "session" \in Running \ WithSession /\ NoSession \in 0..made'
  BY <1>2 DEF Running, WithSession, NoSession
<1>6. call'[c] \in RunOf(made') /\ call'[c].pc = "session"
  BY <1>2, <1>4, <1>5 DEF RunOf
<1>7. Typed(c)'
  BY <1>5, <1>6 DEF Typed
<1>8. \A d \in Calls : Typed(d)'
  BY <1>2, <1>4, <1>7, OneTyped DEF IInv, TypeInv
<1> QED BY <1>1, <1>8 DEF TypeInv, Bounded, OneRow

LEMMA SessionTyped ==
  ASSUME IInv, TypeInv, NEW c \in Calls, Session(c) \/ Fetch(c) \/ Fetched(c) \/ Expire(c)
  PROVE  TypeInv'
<1>1. /\ UNCHANGED <<events, now, rows, added, dead, raced>>
      /\ call[c].pc \in {"session", "fetch", "fetched", "expire"} /\ call[c].pc \in Running
  BY DEF Session, Fetch, Fetched, Expire, Others, VtopKeeps, At, Running
<1>2. call[c] \in RunOf(made) /\ (call[c].pc = "fetched" => call[c].session # NoSession)
      /\ made \in Nat /\ call[c].key \in Keys
  BY <1>1, RunsTyped DEF TypeInv, Bounded, WithSession, RunOf
<1>3. /\ {"fetch", "session"} \subseteq Running \ WithSession
      /\ "fetched" \in Running
  BY DEF Running, WithSession
<1>4. CASE Session(c)
  <2>1. UNCHANGED <<made, edge, kept>> /\ made' \in Nat /\ made <= made'
    BY <1>2, <1>4 DEF Session, SessionsKeep
  <2>2. \A d \in Calls : Typed(d)'
    <3>1. CASE Goes(c, "fetch")
      BY <1>1, <1>3, <2>1, <3>1, PassesTyped
    <3>2. CASE kept[call[c].key] # NoSession /\ Tries(c, kept[call[c].key])
      <4>1. kept[call[c].key] \in 0..made'
        BY <1>2, <2>1 DEF TypeInv, Bounded
      <4> QED BY <1>1, <2>1, <3>2, <4>1, TriesTyped
    <3> QED BY <1>4, <3>1, <3>2 DEF Session
  <2> QED BY <1>1, <2>1, <2>2 DEF TypeInv, Bounded, OneRow
<1>5. CASE Expire(c)
  <2>1. UNCHANGED <<made, kept>> /\ made' \in Nat /\ made <= made' /\ edge' \in 0..made
    BY <1>2, <1>5 DEF Expire, TypeInv, Bounded, NoSession
  <2>2. \A d \in Calls : Typed(d)'
    BY <1>1, <1>3, <1>5, <2>1, PassesTyped, EndsTyped DEF Expire
  <2> QED BY <1>1, <2>1, <2>2 DEF TypeInv, Bounded, OneRow
<1>6. CASE Fetched(c)
  <2>1. UNCHANGED <<made, edge>> /\ made' \in Nat /\ made <= made'
    BY <1>2, <1>6 DEF Fetched
  <2>2. call[c].session \in 0..made' /\ call[c].session # NoSession
    BY <1>2, <1>6, <2>1 DEF Fetched, At, RunOf
  <2>3. kept' \in [Keys -> 0..made']
    BY <1>2, <1>6, <2>1, <2>2 DEF Fetched, TypeInv, Bounded
  <2>4. \A d \in Calls : Typed(d)'
    BY <1>1, <1>6, <2>1, <2>2, TriesTyped DEF Fetched
  <2> QED BY <1>1, <2>1, <2>3, <2>4 DEF TypeInv, Bounded, OneRow
<1>7. CASE Fetch(c)
  <2>1. CASE Ends(c, "error") /\ UNCHANGED <<made, edge>>
    <3>1. kept' = kept /\ made' \in Nat /\ made <= made'
      BY <1>2, <1>7, <2>1 DEF Fetch
    <3>2. \A d \in Calls : Typed(d)'
      BY <2>1, <3>1, EndsTyped
    <3> QED BY <1>1, <2>1, <3>1, <3>2 DEF TypeInv, Bounded, OneRow
  <2>2. CASE ~(Ends(c, "error") /\ UNCHANGED <<made, edge>>)
    <3>1. PICK s \in Sessions :
            /\ \/ s = edge /\ made' = made /\ edge # NoSession
               \/ s = made + 1 /\ made' = s
            /\ edge' = s
            /\ call' = [call EXCEPT ![c].session = s, ![c].pc = "fetched"]
      BY <1>7, <2>2 DEF Fetch
    <3>2. s \in Nat /\ s # NoSession /\ s <= MaxSessions /\ MaxSessions \in Nat
      BY BoundsAssumption DEF Sessions, NoSession
    <3>3. made' \in 0..MaxSessions /\ made <= made' /\ edge' \in 0..made' /\ s \in 0..made'
      BY <1>2, <3>1, <3>2 DEF TypeInv, Bounded
    <3>4. kept' \in [Keys -> 0..made'] /\ dead' \subseteq 1..made'
      BY <1>1, <1>2, <1>7, <3>3 DEF Fetch, TypeInv, Bounded
    <3>5. Moves(c, s, "fetched", call[c].retried, call[c].seen)
      BY <1>2, <3>1 DEF RunOf, IInv, CallsShaped, Moves
    <3>6. call[c].retried \in BOOLEAN /\ call[c].seen \in SUBSET Row /\ made' \in Nat
      BY <1>2, <3>3 DEF RunOf
    <3>7. \A d \in Calls : Typed(d)'
      BY <1>1, <1>3, <3>2, <3>3, <3>5, <3>6, GoesTyped
    <3> QED BY <1>1, <3>3, <3>4, <3>7 DEF TypeInv, Bounded, OneRow
  <2> QED BY <2>1, <2>2
<1> QED BY <1>4, <1>5, <1>6, <1>7

LEMMA ReadTyped ==
  ASSUME IInv, TypeInv, NEW c \in Calls, Look(c) \/ Check(c) \/ Form(c)
  PROVE  TypeInv'
<1>1. call[c].pc \in {"look", "check", "form"} /\ call[c].pc \in Running
  BY DEF Look, Check, Form, At, Running
<1>2. CASE NoPage(c)
  BY <1>1, <1>2, NoPageTyped
<1>3. CASE ~NoPage(c)
  <2>1. UNCHANGED <<events, now, rows, added, dead, made, edge, kept>>
    BY <1>3 DEF Look, Check, Form, Others, VtopKeeps, SessionsKeep
  <2>2. /\ call[c] \in RunOf(made) /\ call[c].session # NoSession
        /\ made \in Nat /\ made' \in Nat /\ made <= made' /\ rows \in SUBSET Row
    BY <1>1, <2>1, RunsTyped DEF TypeInv, Bounded, WithSession, IInv, Types
  <2>3. raced' \subseteq Trips
    <3>1. CASE ~Check(c)
      BY <1>3, <3>1 DEF Look, Form, VtopKeeps, TypeInv, Bounded
    <3>2. CASE Check(c)
      <4>1. call[c].ask \in Applying
        BY <3>2, RunsTyped, <1>1 DEF Check, At
      <4>2. Trip[Sent(c)] \in Trips
        BY <4>1 DEF Applying, Sent, Trips
      <4> QED BY <1>3, <3>2, <4>2 DEF Check, TypeInv, Bounded
    <3> QED BY <3>1, <3>2
  <2>4. \A d \in Calls : Typed(d)'
    <3>1. CASE \E result \in {"shown", "refused"} : Ends(c, result)
      BY <2>2, <3>1, EndsTyped
    <3>2. CASE Goes(c, "form")
      <4>1. Moves(c, call[c].session, "form", call[c].retried, call[c].seen)
        BY <2>2, <3>2 DEF Goes, RunOf, IInv, CallsShaped, Moves
      <4>2. call[c].session \in 0..made' /\ call[c].retried \in BOOLEAN /\ call[c].seen \in SUBSET Row
            /\ "form" \in Running /\ "form" # "check"
        BY <2>1, <2>2 DEF RunOf, Running
      <4> QED BY <1>1, <2>2, <4>1, <4>2, GoesTyped
    <3>3. ASSUME NEW list \in Lists, call' = [call EXCEPT ![c].pc = "post", ![c].seen = list]
          PROVE  \A d \in Calls : Typed(d)'
      <4>1. Moves(c, call[c].session, "post", call[c].retried, list) /\ list \in SUBSET Row
        BY <2>2, <3>3 DEF RunOf, IInv, CallsShaped, Moves, Lists
      <4>2. call[c].session \in 0..made' /\ call[c].retried \in BOOLEAN /\ "post" \in Running /\ "post" # "check"
        BY <2>1, <2>2 DEF RunOf, Running
      <4> QED BY <1>1, <2>2, <4>1, <4>2, GoesTyped
    <3> QED BY <1>3, <3>1, <3>2, <3>3 DEF Look, Check, Form
  <2> QED BY <2>1, <2>3, <2>4 DEF TypeInv, Bounded, OneRow
<1> QED BY <1>2, <1>3

\* A row VTOP adds has an id no row had, one it takes away leaves the others.
LEMMA HandledTyped ==
  ASSUME IInv, TypeInv, NEW key, NEW what,
         \/ Filed(key, what)
         \/ rows' \subseteq rows /\ UNCHANGED added
  PROVE  OneRow' /\ added' \in 0..MaxIds
<1>1. /\ \A r \in rows : r.id \in Nat /\ r.id <= added
      /\ added \in Nat /\ MaxIds \in Nat /\ added \in 0..MaxIds
  BY BoundsAssumption DEF IInv, Types, Row, Ids, TypeInv, Bounded
<1>2. CASE rows' \subseteq rows /\ UNCHANGED added
  BY <1>1, <1>2 DEF OneRow, TypeInv
<1>3. CASE Filed(key, what)
  <2>1. PICK new : rows' = rows \cup {new} /\ new.id = added + 1 /\ added' = added + 1 /\ added < MaxIds
    BY <1>3 DEF Filed
  <2>2. \A r \in rows : r.id # new.id
    BY <1>1, <2>1
  <2>3. OneRow'
    BY <2>1, <2>2 DEF OneRow, TypeInv
  <2> QED BY <1>1, <2>1, <2>3
<1> QED BY <1>2, <1>3

LEMMA SendTyped ==
  ASSUME IInv, TypeInv, NEW send, Handled(send)
  PROVE  OneRow' /\ added' \in 0..MaxIds
<1>1. \/ Filed(send.key, send.ask.what)
      \/ rows' \subseteq rows /\ UNCHANGED added
  BY DEF Handled
<1> QED BY <1>1, HandledTyped

LEMMA PostTyped ==
  ASSUME IInv, TypeInv, NEW c \in Calls, Post(c)
  PROVE  TypeInv'
<1>1. /\ UNCHANGED <<events, now, dead, raced, made, edge>>
      /\ call[c].pc = "post" /\ call[c].pc \in Running
  BY DEF Post, Others, At, Running
<1>2. made \in Nat /\ made' \in Nat /\ made <= made'
  BY <1>1 DEF TypeInv, Bounded
<1>3. OneRow' /\ added' \in 0..MaxIds
  <2>1. CASE Handled(Send(c))
    BY <2>1, SendTyped
  <2>2. CASE UNCHANGED <<rows, added>>
    BY <2>2 DEF TypeInv, OneRow, Bounded
  <2> QED BY <2>1, <2>2 DEF Post
<1>4. (\A d \in Calls : Typed(d)') /\ kept' \in [Keys -> 0..made]
  <2>1. CASE Answer(c) /\ UNCHANGED kept
    <3>1. PICK result \in {"applied", "not_applied", "cancelled", "not_cancelled"}, page \in Pages :
            call' = [call EXCEPT ![c] = Ended(result, rows = call[c].seen /\ Truthful(page),
                                              page.list, rows' # rows)]
      BY <2>1 DEF Answer
    <3>2. result \in Results
      BY DEF Results
    <3>3. /\ (rows = call[c].seen /\ Truthful(page)) \in BOOLEAN /\ (rows' # rows) \in BOOLEAN
          /\ page.list \in BOOLEAN
      BY DEF Pages, Truthful
    <3>4. \A d \in Calls : Typed(d)'
      BY <1>2, <3>1, <3>2, <3>3, EndTyped
    <3> QED BY <2>1, <3>4 DEF TypeInv, Bounded
  <2>2. CASE Rejected(c)
    BY <1>1, <2>2, RejectedTyped
  <2>3. CASE Ends(c, "error") /\ UNCHANGED kept
    BY <1>2, <2>3, EndsTyped DEF TypeInv, Bounded
  <2> QED BY <2>1, <2>2, <2>3 DEF Post
<1> QED BY <1>1, <1>3, <1>4 DEF TypeInv, Bounded

\* What goes on around the calls leaves them as they are.
LEMMA WorldTyped ==
  ASSUME IInv, TypeInv,
         \/ \E m \in late : HandledLate(m)
         \/ \E req \in Requests : StudentFiles(req)
         \/ \E r \in rows : Accept(r)
         \/ \E s \in 1..made : Drop(s)
         \/ \E key \in Keys : Lapse(key) \/ Forbid(key)
         \/ Tick
  PROVE  TypeInv'
<1>1. UNCHANGED <<raced, made, edge, call>>
  BY DEF HandledLate, StudentFiles, Accept, Drop, Lapse, Forbid, Tick, SessionsKeep, VtopKeeps
<1>2. events' \in 0..MaxEvents /\ now' \in 0..events'
  <2>1. \/ UNCHANGED <<events, now>>
        \/ events < MaxEvents /\ events' = events + 1 /\ now' \in {now, now + 1}
    BY DEF HandledLate, StudentFiles, Accept, Drop, Lapse, Forbid, Tick, Happens, Others
  <2> QED BY <2>1, BoundsAssumption DEF TypeInv, Bounded
<1>3. OneRow' /\ added' \in 0..MaxIds
  <2>1. CASE \E m \in late : HandledLate(m)
    BY <2>1, SendTyped DEF HandledLate
  <2>2. CASE \E req \in Requests : StudentFiles(req)
    BY <2>2, HandledTyped DEF StudentFiles
  <2>3. ASSUME NEW r \in rows, Accept(r) PROVE OneRow' /\ added' \in 0..MaxIds
    <3>1. [r EXCEPT !.waits = FALSE].id = r.id
      BY DEF IInv, Types, Row
    <3>2. PICK new : new.id = r.id /\ rows' = (rows \ {r}) \cup {new}
      BY <2>3, <3>1 DEF Accept
    <3>3. \A q \in rows \ {r} : q.id # new.id
      BY <3>2 DEF TypeInv, OneRow
    <3>4. OneRow'
      BY <3>2, <3>3 DEF TypeInv, OneRow
    <3> QED BY <2>3, <3>4 DEF Accept, TypeInv, Bounded
  <2>4. CASE \/ \E s \in 1..made : Drop(s)
             \/ \E key \in Keys : Lapse(key) \/ Forbid(key)
             \/ Tick
    <3>1. UNCHANGED <<rows, added>>
      BY <2>4 DEF Drop, Lapse, Forbid, Tick, VtopKeeps
    <3> QED BY <3>1 DEF TypeInv, OneRow, Bounded
  <2> QED BY <2>1, <2>2, <2>3, <2>4
<1>4. dead' \subseteq 1..made
  <2>1. dead' = dead \/ \E s \in 1..made : dead' = dead \cup {s}
    BY DEF HandledLate, StudentFiles, Accept, Drop, Lapse, Forbid, Tick, Others, VtopKeeps
  <2> QED BY <2>1 DEF TypeInv, Bounded
<1>5. kept' \in [Keys -> 0..made]
  <2>1. kept' = kept \/ \E key \in Keys : kept' = [kept EXCEPT ![key] = NoSession]
    BY DEF HandledLate, StudentFiles, Accept, Drop, Lapse, Forbid, Tick, SessionsKeep
  <2> QED BY <2>1 DEF TypeInv, Bounded, NoSession
<1>6. \A d \in Calls : Typed(d)'
  BY <1>1 DEF TypeInv, Typed
<1> QED BY <1>1, <1>2, <1>3, <1>4, <1>5, <1>6 DEF TypeInv, Bounded

\* The sessions the tools use are those the edge made, a call that reaches
\* VTOP has one, and no two rows of VTOP's list share an id.
THEOREM OutingsTyped == Spec => []TypeOK
<1>1. Init => TypeInv
  BY BoundsAssumption DEF Init, TypeInv, Bounded, OneRow, Typed, NoSession, Trips
<1>2. IInv /\ TypeInv /\ [Next]_vars => TypeInv'
  <2> SUFFICES ASSUME IInv, TypeInv, [Next]_vars PROVE TypeInv'
    OBVIOUS
  <2>1. CASE UNCHANGED vars
    BY <2>1 DEF vars, TypeInv, Bounded, OneRow, Typed
  <2>2. ASSUME NEW c \in Calls, Begin(c) \/ CallStep(c) PROVE TypeInv'
    BY <2>2, BeginTyped, SessionTyped, ReadTyped, PostTyped DEF CallStep
  <2> QED BY <2>1, <2>2, WorldTyped DEF Next
<1>3. IInv /\ TypeInv => TypeOK
  <2> SUFFICES ASSUME IInv, TypeInv PROVE TypeOK
    OBVIOUS
  <2>1. ASSUME NEW c \in Calls
        PROVE  \/ call[c] = [pc |-> "free"]
               \/ /\ call[c] \in [pc: Running, key: Keys, ask: Asks, sends: BOOLEAN, began: Nat,
                                  session: 0..made, retried: BOOLEAN, seen: SUBSET Row]
                  /\ call[c].pc \in {"look", "check", "form", "post"} => call[c].session # NoSession
               \/ call[c] \in [pc: Results, fair: BOOLEAN, listed: BOOLEAN, done: BOOLEAN]
    BY DEF TypeInv, Typed, RunOf, EndType, WithSession
  <2> QED BY <2>1 DEF TypeOK, TypeInv, Bounded, OneRow, IInv, Types, SendType, Trips
<1> QED BY <1>1, <1>2, <1>3, Invariant, PTL DEF Spec
=============================================================================

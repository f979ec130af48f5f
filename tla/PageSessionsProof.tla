-------------------------- MODULE PageSessionsProof --------------------------
(***************************************************************************)
(* PageSessions serves every page from the account it was asked for, for   *)
(* any number of phones, students, fetches and sessions; the gateway keeps *)
(* a session no longer than it may (NamedSoonEnough), and none above its   *)
(* capacity (SessionsTyped).                                               *)
(*                                                                         *)
(* The argument follows an account to where it is used for a sign-in.  On  *)
(* a phone that is not mixed, an account that travels with a session owns  *)
(* it (FetchOwn) and is kept with it (KeptOwn); a sign-in for it is its    *)
(* own (EdgeOwn), and so is the client's session (PhoneOwn).               *)
(***************************************************************************)
EXTENDS PageSessions, Integers, FiniteSetTheorems, TLAPS

FetchType ==
  [pc: {"begun", "asked", "answered", "adopt"} \cup AtGateway, of: Phones, named: Made,
   may: Accounts \cup {NoAccount}, carries: BOOLEAN, on: {NoSession} \cup Made,
   account: Accounts \cup {NoAccount}, renewed: {NoSession} \cup Made,
   answer: Answers \cup {"none"}, gone: BOOLEAN, crossed: BOOLEAN]

KeptType == [session: Nat, account: Accounts \cup {NoAccount}, at: Nat]

Types ==
  /\ now \in Nat
  /\ owner \in Seq(Accounts)
  /\ edge \in [Accounts -> {NoSession} \cup Made]
  /\ user \in [Phones -> Accounts]
  /\ mixed \subseteq Phones
  /\ phone \in [Phones -> {NoSession} \cup Made]
  /\ kept \in [Devices -> KeptType]

\* What is said of fetch f: its shape, and which account its sessions are of.
Shaped(f) ==
  \/ fetch[f] = Idle
  \/ fetch[f] \in [pc: {"expired"}, of: Phones]
  \/ /\ fetch[f] \in FetchType
     /\ fetch[f].pc = "begun" => fetch[f].on = NoSession /\ fetch[f].renewed = NoSession
     /\ fetch[f].pc \in AtGateway => fetch[f].on # NoSession
     /\ fetch[f].pc = "sign_in" => fetch[f].account # NoAccount
     /\ fetch[f].pc = "adopt" => fetch[f].renewed # NoSession
     /\ fetch[f].pc = "answered" /\ fetch[f].answer = "page" => fetch[f].on # NoSession

Own(f) ==
  Running(f) /\ fetch[f].of \notin mixed =>
    /\ fetch[f].may # NoAccount => owner[fetch[f].named] = fetch[f].may
    /\ fetch[f].account # NoAccount => owner[fetch[f].named] = fetch[f].account
    /\ fetch[f].on # NoSession => owner[fetch[f].on] = owner[fetch[f].named]

FetchShaped == fetch = [f \in Fetches |-> fetch[f]] /\ \A f \in Fetches : Shaped(f)
FetchOwn == \A f \in Fetches : Own(f)
EdgeOwn == \A a \in Accounts : edge[a] # NoSession => owner[edge[a]] = a
PhoneOwn == \A p \in Phones \ mixed : phone[p] # NoSession => owner[phone[p]] = user[p]
KeptOwn ==
  \A p \in Phones \ mixed :
    kept[p].account # NoAccount =>
      kept[p].session \in Made /\ owner[kept[p].session] = kept[p].account

IInv == Types /\ FetchShaped /\ FetchOwn /\ EdgeOwn /\ PhoneOwn /\ KeptOwn

\* A sign-in gives a session of the account it is for, and leaves the others
\* whose they were.
LEMMA SignedInGives ==
  ASSUME owner \in Seq(Accounts), edge \in [Accounts -> {NoSession} \cup Made], EdgeOwn,
         NEW a \in Accounts, NEW byServer \in BOOLEAN, NEW s \in Sessions,
         SignedIn(a, byServer, s)
  PROVE  /\ owner' \in Seq(Accounts)
         /\ Made \subseteq Made' /\ s \in Made'
         /\ \A i \in Made : owner'[i] = owner[i]
         /\ owner'[s] = a
         /\ edge' \in [Accounts -> {NoSession} \cup Made']
         /\ EdgeOwn'
<1>1. CASE byServer /\ edge[a] \notin dead \cup {NoSession}
  BY <1>1 DEF SignedIn, Vtop, EdgeOwn, Made
<1>2. CASE ~(byServer /\ edge[a] \notin dead \cup {NoSession})
  <2>1. /\ owner' = Append(owner, a) /\ s = Len(owner) + 1
        /\ edge' = IF byServer THEN [edge EXCEPT ![a] = s] ELSE edge
    BY <1>2 DEF SignedIn
  <2>2. /\ owner' \in Seq(Accounts) /\ Len(owner') = Len(owner) + 1 /\ Len(owner) \in Nat
        /\ \A i \in Made : owner'[i] = owner[i]
        /\ owner'[s] = a
    BY <2>1 DEF Made
  <2>3. Made \subseteq Made' /\ s \in Made'
    BY <2>1, <2>2 DEF Made
  <2>4. edge' \in [Accounts -> {NoSession} \cup Made'] /\ EdgeOwn'
    BY <2>1, <2>2, <2>3 DEF EdgeOwn
  <2> QED BY <2>2, <2>3, <2>4
<1> QED BY <1>1, <1>2

\* Sessions made, and students who change, leave the other fetches as they
\* were.
LEMMA OthersKeep ==
  ASSUME FetchShaped, FetchOwn, NEW g \in Fetches, fetch'[g] = fetch[g],
         Made \subseteq Made', \A i \in Made : owner'[i] = owner[i], mixed \subseteq mixed'
  PROVE  Shaped(g)' /\ Own(g)'
<1>1. Shaped(g)'
  BY DEF FetchShaped, Shaped, FetchType
<1>2. Own(g)'
  <2> SUFFICES ASSUME Running(g)', fetch'[g].of \notin mixed' PROVE Own(g)'
    BY DEF Own
  <2>1. Running(g) /\ fetch[g].of \notin mixed /\ fetch[g] \in FetchType
    BY DEF Running, FetchShaped, Shaped, Idle
  <2>2. fetch[g].named \in Made /\ fetch[g].on \in {NoSession} \cup Made
    BY <2>1 DEF FetchType
  <2> QED BY <2>1, <2>2 DEF FetchOwn, Own
<1> QED BY <1>1, <1>2

LEMMA OneMoves ==
  ASSUME FetchShaped, FetchOwn, NEW f \in Fetches, fetch' = [fetch EXCEPT ![f] = fetch'[f]],
         Made \subseteq Made', \A i \in Made : owner'[i] = owner[i], mixed \subseteq mixed',
         Shaped(f)', Own(f)'
  PROVE  FetchShaped' /\ FetchOwn'
<1>1. fetch' = [g \in Fetches |-> fetch'[g]] /\ \A g \in Fetches \ {f} : fetch'[g] = fetch[g]
  BY DEF FetchShaped
<1>2. \A g \in Fetches \ {f} : Shaped(g)' /\ Own(g)'
  BY <1>1, OthersKeep
<1> QED BY <1>1, <1>2 DEF FetchShaped, FetchOwn

LEMMA StartKeeps ==
  ASSUME IInv, NEW f \in Fetches, NEW p \in Phones, Start(f, p)
  PROVE  IInv'
<1>1. UNCHANGED <<now, owner, edge, user, mixed, phone, kept>>
  BY DEF Start, World, Vtop
<1>2. Types' /\ EdgeOwn' /\ PhoneOwn' /\ KeptOwn' /\ Made' = Made
  BY <1>1 DEF IInv, Types, EdgeOwn, PhoneOwn, KeptOwn, Made
<1>3. fetch' = [fetch EXCEPT ![f] = fetch'[f]]
  BY DEF Start, IInv, FetchShaped
<1>4. /\ fetch'[f] =
           [pc |-> "begun", of |-> p, named |-> phone[p], may |-> NoAccount, carries |-> FALSE,
            on |-> NoSession, account |-> NoAccount, renewed |-> NoSession,
            answer |-> "none", gone |-> FALSE, crossed |-> FALSE]
      /\ phone[p] \in Made
  BY DEF Start, IInv, FetchShaped, Types
<1>5. Shaped(f)'
  BY <1>2, <1>4 DEF Shaped, FetchType, AtGateway, Answers
<1>6. Own(f)'
  BY <1>4 DEF Own
<1>7. FetchShaped' /\ FetchOwn'
  BY <1>1, <1>2, <1>3, <1>5, <1>6, OneMoves DEF IInv
<1> QED BY <1>2, <1>7 DEF IInv

\* An account that is not the session's mixes the phone.
LEMMA AskKeeps ==
  ASSUME IInv, NEW f \in Fetches, Ask(f)
  PROVE  IInv'
<1>1. UNCHANGED <<now, owner, edge, user, phone, kept>>
  BY DEF Ask, Vtop
<1>2. fetch[f] \in FetchType /\ fetch[f].pc = "begun" /\ Running(f) /\ Own(f)
      /\ fetch[f].on = NoSession /\ fetch[f].renewed = NoSession
  BY DEF Ask, At, IInv, FetchShaped, Shaped, Idle, Running, FetchOwn
<1>3. PICK c \in BOOLEAN, may \in Accounts \cup {NoAccount} :
        /\ fetch' = [fetch EXCEPT ![f].pc = "asked", ![f].may = may, ![f].carries = c,
                       ![f].account = IF c THEN may ELSE NoAccount]
        /\ mixed' = mixed \cup (IF may \in {NoAccount, owner[fetch[f].named]}
                                THEN {} ELSE {fetch[f].of})
  <2>1. user[fetch[f].of] \in Accounts
    BY <1>2 DEF IInv, Types, FetchType
  <2> QED BY <2>1 DEF Ask, GatewayHas
<1>4. /\ fetch' = [fetch EXCEPT ![f] = fetch'[f]]
      /\ fetch'[f] = [fetch[f] EXCEPT !.pc = "asked", !.may = may, !.carries = c,
                        !.account = IF c THEN may ELSE NoAccount]
  BY <1>3 DEF IInv, FetchShaped
<1>5. mixed \subseteq mixed' /\ mixed' \subseteq Phones
  BY <1>2, <1>3 DEF IInv, Types, FetchType
<1>6. Types' /\ EdgeOwn' /\ PhoneOwn' /\ KeptOwn' /\ Made' = Made
  BY <1>1, <1>5 DEF IInv, Types, EdgeOwn, PhoneOwn, KeptOwn, Made
<1>7. Shaped(f)'
  BY <1>2, <1>4, <1>6 DEF Shaped, FetchType, AtGateway
<1>8. fetch'[f].of \notin mixed' /\ may # NoAccount => owner[fetch[f].named] = may
  <2>1. fetch'[f].of = fetch[f].of
    BY <1>2, <1>4 DEF FetchType
  <2>2. may \notin {NoAccount, owner[fetch[f].named]} => fetch[f].of \in mixed'
    BY <1>3
  <2> QED BY <2>1, <2>2
<1>9. Own(f)'
  BY <1>1, <1>2, <1>4, <1>8 DEF Own, Running, FetchType
<1>10. FetchShaped' /\ FetchOwn'
  BY <1>1, <1>4, <1>5, <1>6, <1>7, <1>9, OneMoves DEF IInv
<1> QED BY <1>6, <1>10 DEF IInv

LEMMA EndKeeps ==
  ASSUME FetchShaped, FetchOwn, NEW f \in Fetches, Finishes(f) \/ Ends(f), fetch[f] \in FetchType \/ Ends(f),
         Made \subseteq Made', \A i \in Made : owner'[i] = owner[i], mixed \subseteq mixed'
  PROVE  FetchShaped' /\ FetchOwn'
<1>1. fetch' = [fetch EXCEPT ![f] = fetch'[f]]
  BY DEF Finishes, Ends, FetchShaped
<1>2. Shaped(f)' /\ Own(f)'
  BY DEF Finishes, Ends, FetchShaped, Shaped, Own, Running, Idle, FetchType
<1> QED BY <1>1, <1>2, OneMoves

\* An answer names no account, and a session only with a page.
LEMMA AnsweredKeeps ==
  ASSUME FetchShaped, FetchOwn, NEW f \in Fetches, NEW answer \in Answers, Answered(f, answer),
         fetch[f] \in FetchType, fetch[f].pc # "answered", answer = "page" => fetch[f].on # NoSession,
         Running(f), UNCHANGED owner, mixed' = mixed
  PROVE  FetchShaped' /\ FetchOwn'
<1>1. fetch' = [fetch EXCEPT ![f] = fetch'[f]] /\ Made' = Made
  BY DEF Answered, FetchShaped, Made
<1>2. fetch'[f] = [fetch[f] EXCEPT !.pc = "answered", !.answer = answer, !.account = NoAccount,
                     !.on = IF answer = "page" THEN fetch[f].on ELSE NoSession]
  BY DEF Answered, FetchShaped
<1>3. Shaped(f)'
  BY <1>1, <1>2 DEF Shaped, FetchType, AtGateway
<1>4. Own(f)'
  BY <1>2 DEF FetchOwn, Own, FetchType, Running
<1> QED BY <1>1, <1>3, <1>4, OneMoves

LEMMA HearKeeps ==
  ASSUME IInv, NEW f \in Fetches, Hear(f)
  PROVE  IInv'
<1>1. UNCHANGED <<now, owner, edge, user, mixed, phone, kept>>
  BY DEF Hear, World, Vtop
<1>2. Types' /\ EdgeOwn' /\ PhoneOwn' /\ KeptOwn' /\ Made' = Made
  BY <1>1 DEF IInv, Types, EdgeOwn, PhoneOwn, KeptOwn, Made
<1>3. fetch[f] \in FetchType /\ fetch[f].pc = "answered" /\ Running(f) /\ Own(f)
  BY DEF Hear, At, IInv, FetchShaped, Shaped, Idle, Running, FetchOwn
<1>4. CASE AsksAgain(f) /\ fetch' = [fetch EXCEPT ![f].pc = "asked", ![f].carries = TRUE,
                                       ![f].account = fetch[f].may, ![f].answer = "none"]
  <2>1. fetch' = [fetch EXCEPT ![f] = fetch'[f]]
    BY <1>4 DEF IInv, FetchShaped
  <2>2. Shaped(f)' /\ Own(f)'
    BY <1>1, <1>2, <1>3, <1>4 DEF IInv, FetchShaped, Shaped, FetchType, AtGateway, Own, Running
  <2> QED BY <1>1, <1>2, <2>1, <2>2, OneMoves DEF IInv
<1>5. CASE fetch[f].renewed # NoSession /\ fetch' = [fetch EXCEPT ![f].pc = "adopt"]
  <2>1. fetch' = [fetch EXCEPT ![f] = fetch'[f]]
    BY <1>5 DEF IInv, FetchShaped
  <2>2. Shaped(f)' /\ Own(f)'
    BY <1>1, <1>2, <1>3, <1>5 DEF IInv, FetchShaped, Shaped, FetchType, AtGateway, Own, Running
  <2> QED BY <1>1, <1>2, <2>1, <2>2, OneMoves DEF IInv
<1>6. CASE Finishes(f)
  BY <1>1, <1>2, <1>3, <1>6, EndKeeps DEF IInv
<1> QED BY <1>4, <1>5, <1>6 DEF Hear

\* The client's session is its student's still, or the phone is mixed.
LEMMA AdoptKeeps ==
  ASSUME IInv, NEW f \in Fetches, Adopt(f)
  PROVE  IInv'
<1>1. UNCHANGED <<now, owner, edge, user, kept>>
  BY DEF Adopt, Vtop
<1>2. fetch[f] \in FetchType /\ fetch[f].renewed \in Made
  BY DEF Adopt, At, IInv, FetchShaped, Shaped, Idle, FetchType
<1>3. /\ mixed \subseteq mixed' /\ mixed' \subseteq Phones
      /\ owner[fetch[f].renewed] # user[fetch[f].of] => fetch[f].of \in mixed'
  BY <1>2 DEF Adopt, IInv, Types, FetchType
<1>4. Types' /\ EdgeOwn' /\ KeptOwn' /\ Made' = Made
  BY <1>1, <1>2, <1>3 DEF Adopt, IInv, Types, EdgeOwn, KeptOwn, FetchType, Made
<1>5. PhoneOwn'
  BY <1>1, <1>2, <1>3 DEF Adopt, IInv, Types, PhoneOwn, FetchType
<1>6. FetchShaped' /\ FetchOwn'
  BY <1>1, <1>2, <1>3, <1>4, EndKeeps DEF Adopt, IInv
<1> QED BY <1>4, <1>5, <1>6 DEF IInv

LEMMA GiveUpKeeps ==
  ASSUME IInv, NEW f \in Fetches, GiveUp(f)
  PROVE  IInv'
<1>1. UNCHANGED <<now, owner, edge, user, mixed, phone, kept>>
  BY DEF GiveUp, World, Vtop
<1>2. Types' /\ EdgeOwn' /\ PhoneOwn' /\ KeptOwn' /\ Made' = Made
  BY <1>1 DEF IInv, Types, EdgeOwn, PhoneOwn, KeptOwn, Made
<1>3. fetch[f] \in FetchType /\ Running(f) /\ Own(f)
  BY DEF GiveUp, AtGateway, IInv, FetchShaped, Shaped, Idle, Running, FetchOwn
<1>4. fetch' = [fetch EXCEPT ![f] = fetch'[f]]
  BY DEF GiveUp, IInv, FetchShaped
<1>5. /\ fetch'[f] = [fetch[f] EXCEPT !.gone = TRUE, !.may = NoAccount]
      /\ Shaped(f) /\ fetch[f].pc # "answered"
  BY DEF GiveUp, IInv, FetchShaped, AtGateway
<1>6. Shaped(f)'
  BY <1>2, <1>3, <1>5 DEF Shaped, FetchType, Idle
<1>7. Own(f)'
  BY <1>1, <1>3, <1>5 DEF Own, FetchType, Running
<1> QED BY <1>1, <1>2, <1>4, <1>6, <1>7, OneMoves DEF IInv

LEMMA LostKeeps ==
  ASSUME IInv, NEW f \in Fetches, Lost(f)
  PROVE  IInv'
<1>1. UNCHANGED <<now, owner, edge, user, mixed, phone, kept>>
  BY DEF Lost, World, Vtop
<1>2. Types' /\ EdgeOwn' /\ PhoneOwn' /\ KeptOwn' /\ Made' = Made
  BY <1>1 DEF IInv, Types, EdgeOwn, PhoneOwn, KeptOwn, Made
<1> QED BY <1>1, <1>2, EndKeeps DEF Lost, IInv

\* The session of a sign-in on the phone is its student's.
LEMMA SignsInKeeps ==
  ASSUME IInv, NEW p \in Phones, SignsIn(p), UNCHANGED <<now, user, mixed, kept>>
  PROVE  /\ Types' /\ EdgeOwn' /\ PhoneOwn' /\ KeptOwn'
         /\ Made \subseteq Made' /\ \A i \in Made : owner'[i] = owner[i]
<1>1. PICK s \in Sessions, b \in BOOLEAN :
        SignedIn(user[p], b, s) /\ phone' = [phone EXCEPT ![p] = s]
  BY DEF SignsIn
<1>2. /\ owner' \in Seq(Accounts)
      /\ Made \subseteq Made' /\ s \in Made'
      /\ \A i \in Made : owner'[i] = owner[i]
      /\ owner'[s] = user[p]
      /\ edge' \in [Accounts -> {NoSession} \cup Made']
      /\ EdgeOwn'
  <2>1. user[p] \in Accounts
    BY DEF IInv, Types
  <2> QED BY <1>1, <2>1, SignedInGives DEF IInv, Types
<1>3. Types'
  BY <1>1, <1>2 DEF IInv, Types
<1>4. PhoneOwn'
  BY <1>1, <1>2 DEF IInv, Types, PhoneOwn
<1>5. KeptOwn'
  <2> SUFFICES ASSUME NEW q \in Phones \ mixed, kept[q].account # NoAccount
               PROVE  kept[q].session \in Made' /\ owner'[kept[q].session] = kept[q].account
    BY DEF KeptOwn
  <2> QED BY <1>2 DEF IInv, KeptOwn
<1> QED BY <1>2, <1>3, <1>4, <1>5

LEMMA SignInKeeps ==
  ASSUME IInv, NEW p \in Phones, SignIn(p)
  PROVE  IInv'
<1>1. SignsIn(p) /\ UNCHANGED <<now, user, mixed, kept, fetch>>
  BY DEF SignIn, World
<1>2. /\ Types' /\ EdgeOwn' /\ PhoneOwn' /\ KeptOwn'
      /\ Made \subseteq Made' /\ \A i \in Made : owner'[i] = owner[i]
  BY <1>1, SignsInKeeps
<1>3. \A g \in Fetches : Shaped(g)' /\ Own(g)'
  BY <1>1, <1>2, OthersKeep DEF IInv
<1> QED BY <1>1, <1>2, <1>3 DEF IInv, FetchShaped, FetchOwn

LEMMA ReloginKeeps ==
  ASSUME IInv, NEW f \in Fetches, Relogin(f)
  PROVE  IInv'
<1>1. Ends(f) /\ UNCHANGED <<now, user, mixed, kept>> /\ fetch[f].of \in Phones
  BY DEF Relogin, World, At, IInv, FetchShaped, Shaped, Idle, FetchType
<1>2. /\ Types' /\ EdgeOwn' /\ PhoneOwn' /\ KeptOwn'
      /\ Made \subseteq Made' /\ \A i \in Made : owner'[i] = owner[i]
  <2>1. CASE SignsIn(fetch[f].of)
    BY <1>1, <2>1, SignsInKeeps
  <2>2. CASE UNCHANGED <<Vtop, phone>>
    BY <1>1, <2>2 DEF IInv, Types, EdgeOwn, PhoneOwn, KeptOwn, Made, Vtop
  <2> QED BY <2>1, <2>2 DEF Relogin
<1>3. FetchShaped' /\ FetchOwn'
  BY <1>1, <1>2, EndKeeps DEF IInv
<1> QED BY <1>2, <1>3 DEF IInv

LEMMA BusyKeeps ==
  ASSUME IInv, NEW f \in Fetches, Busy(f)
  PROVE  IInv'
<1>1. UNCHANGED <<now, owner, edge, user, mixed, phone, kept>> /\ Answered(f, "refused")
  BY DEF Busy, World, Vtop
<1>2. Types' /\ EdgeOwn' /\ PhoneOwn' /\ KeptOwn'
  BY <1>1 DEF IInv, Types, EdgeOwn, PhoneOwn, KeptOwn, Made
<1>3. fetch[f] \in FetchType /\ fetch[f].pc = "asked" /\ Running(f)
  BY DEF Busy, At, IInv, FetchShaped, Shaped, Idle, Running
<1>4. FetchShaped' /\ FetchOwn'
  BY <1>1, <1>3, AnsweredKeeps DEF IInv, Answers
<1> QED BY <1>2, <1>4 DEF IInv

\* What the gateway keeps of a device is what it was sent with, or nothing.
LEMMA KeepsKeeps ==
  ASSUME KeptOwn, kept \in [Devices -> KeptType], now \in Nat,
         NEW p \in Devices, NEW s \in Nat, NEW a \in Accounts \cup {NoAccount}, Keeps(p, s, a),
         Made \subseteq Made', \A i \in Made : owner'[i] = owner[i], mixed \subseteq mixed',
         p \in Phones \ mixed' /\ a # NoAccount => s \in Made' /\ owner'[s] = a
  PROVE  kept' \in [Devices -> KeptType] /\ KeptOwn'
<1> DEFINE new == [session |-> s, account |-> a, at |-> now]
<1>1. new \in KeptType /\ Nothing \in KeptType
  BY DEF KeptType, Nothing, NoSession
<1>2. PICK q \in Devices : kept' = [kept EXCEPT ![q] = Nothing, ![p] = new] \/ kept' = [kept EXCEPT ![p] = new]
  BY DEF Keeps, Holding
<1>3. \A d \in Devices : kept'[d] = IF d = p THEN new ELSE IF kept'[d] = kept[d] THEN kept[d] ELSE Nothing
  BY <1>2
<1>4. kept' \in [Devices -> KeptType]
  BY <1>1, <1>2
<1>5. KeptOwn'
  <2> SUFFICES ASSUME NEW d \in Phones \ mixed', kept'[d].account # NoAccount
               PROVE  kept'[d].session \in Made' /\ owner'[kept'[d].session] = kept'[d].account
    BY DEF KeptOwn
  <2>1. d \in Devices /\ d \in Phones \ mixed
    BY DEF Devices
  <2>2. CASE d = p
    BY <1>3, <2>1, <2>2
  <2>3. CASE d # p /\ kept'[d] = kept[d]
    BY <2>1, <2>3 DEF KeptOwn
  <2>4. CASE kept'[d] = Nothing
    BY <2>4 DEF Nothing
  <2> QED BY <1>3, <2>1, <2>2, <2>3, <2>4
<1> QED BY <1>4, <1>5

\* A session held under the hash of the one the fetch named is that one.
LEMMA ServeKeeps ==
  ASSUME IInv, NEW f \in Fetches, Serve(f)
  PROVE  IInv'
<1>1. UNCHANGED <<now, owner, edge, user, mixed, phone>> /\ Made' = Made
  BY DEF Serve, World, Vtop, Made
<1>2. EdgeOwn' /\ PhoneOwn'
  BY <1>1 DEF IInv, EdgeOwn, PhoneOwn
<1>3. /\ fetch[f] \in FetchType /\ fetch[f].pc = "asked" /\ Running(f) /\ Own(f)
      /\ fetch[f].of \in Phones /\ fetch[f].of \in Devices /\ fetch[f].named \in Made /\ fetch[f].named \in Nat
  BY DEF Serve, At, IInv, FetchShaped, Shaped, Idle, Running, FetchOwn, FetchType, Devices, Made
<1> DEFINE p == fetch[f].of
           on(s, a) == fetch' = [fetch EXCEPT ![f].pc = "engine", ![f].on = s, ![f].account = a]
<1>4. ASSUME NEW a \in Accounts \cup {NoAccount}, on(fetch[f].named, a),
             fetch[f].of \notin mixed /\ a # NoAccount => owner[fetch[f].named] = a
      PROVE  FetchShaped' /\ FetchOwn'
  <2>1. fetch' = [fetch EXCEPT ![f] = fetch'[f]]
    BY <1>4 DEF IInv, FetchShaped
  <2>2. fetch'[f] = [fetch[f] EXCEPT !.pc = "engine", !.on = fetch[f].named, !.account = a]
    BY <1>4 DEF IInv, FetchShaped
  <2>3. Shaped(f)'
    <3>1. fetch'[f] \in FetchType
      BY <1>3, <2>2, a \in Accounts \cup {NoAccount} DEF FetchType, AtGateway
    <3>2. fetch'[f].pc = "engine" /\ fetch'[f].on # NoSession
      BY <1>3, <2>2 DEF FetchType, Made, NoSession
    <3> QED BY <1>1, <3>1, <3>2 DEF Shaped, FetchType, AtGateway
  <2>4. Own(f)'
    <3>1. /\ fetch'[f].of = fetch[f].of /\ fetch'[f].named = fetch[f].named
          /\ fetch'[f].may = fetch[f].may /\ fetch'[f].on = fetch[f].named
          /\ fetch'[f].account = a
      BY <1>3, <2>2 DEF FetchType
    <3> QED BY <1>1, <1>3, <1>4, <3>1 DEF Own
  <2> QED BY <1>1, <2>1, <2>3, <2>4, OneMoves DEF IInv
<1>5. CASE /\ fetch[f].carries
           /\ Keeps(p, fetch[f].named, fetch[f].account)
           /\ on(fetch[f].named, fetch[f].account)
  <2>1. /\ fetch[f].account \in Accounts \cup {NoAccount}
        /\ p \notin mixed /\ fetch[f].account # NoAccount => owner[fetch[f].named] = fetch[f].account
    BY <1>3 DEF FetchType, Own
  <2>2. kept' \in [Devices -> KeptType] /\ KeptOwn'
    BY <1>1, <1>3, <1>5, <2>1, KeepsKeeps DEF IInv, Types
  <2>3. FetchShaped' /\ FetchOwn'
    BY <1>4, <1>5, <2>1
  <2> QED BY <1>1, <1>2, <2>2, <2>3 DEF IInv, Types
<1>6. CASE /\ Holds(p, fetch[f].named)
           /\ kept' = [kept EXCEPT ![p].at = now]
           /\ on(kept[p].session, kept[p].account)
  <2>1. kept[p].session = fetch[f].named /\ kept[p] \in KeptType
    BY <1>3, <1>6 DEF Holds, IInv, Types
  <2>2. kept[p].account \in Accounts \cup {NoAccount}
    BY <2>1 DEF KeptType
  <2>3. kept' \in [Devices -> KeptType]
    BY <1>1, <1>6, <2>1 DEF IInv, Types, KeptType
  <2>4. \A d \in Devices : kept'[d].session = kept[d].session /\ kept'[d].account = kept[d].account
    BY <1>6 DEF IInv, Types, KeptType
  <2>5. KeptOwn'
    BY <1>1, <2>4 DEF IInv, KeptOwn, Devices
  <2>6. FetchShaped' /\ FetchOwn'
    <3>1. p \notin mixed /\ kept[p].account # NoAccount => owner[fetch[f].named] = kept[p].account
      BY <1>3, <2>1 DEF IInv, KeptOwn
    <3> QED BY <1>4, <1>6, <2>1, <2>2, <3>1
  <2> QED BY <1>1, <1>2, <2>3, <2>5, <2>6 DEF IInv, Types
<1>7. CASE Answered(f, "need_session") /\ UNCHANGED kept
  <2>1. FetchShaped' /\ FetchOwn'
    BY <1>1, <1>3, <1>7, AnsweredKeeps DEF IInv, Answers
  <2> QED BY <1>1, <1>2, <1>7, <2>1 DEF IInv, Types, KeptOwn
<1> QED BY <1>5, <1>6, <1>7 DEF Serve

LEMMA FetchKeeps ==
  ASSUME IInv, NEW f \in Fetches, Fetch(f)
  PROVE  IInv'
<1>1. UNCHANGED <<now, owner, edge, user, mixed, phone, kept>>
  BY DEF Fetch, World, Vtop
<1>2. Types' /\ EdgeOwn' /\ PhoneOwn' /\ KeptOwn' /\ Made' = Made
  BY <1>1 DEF IInv, Types, EdgeOwn, PhoneOwn, KeptOwn, Made
<1>3. /\ fetch[f] \in FetchType /\ fetch[f].pc \in AtGateway /\ Running(f) /\ Own(f)
      /\ fetch[f].on # NoSession
  BY DEF Fetch, At, AtGateway, IInv, FetchShaped, Shaped, Idle, Running, FetchOwn
<1>4. CASE \E answer \in Answers : Answered(f, answer)
  BY <1>1, <1>2, <1>3, <1>4, AnsweredKeeps DEF IInv, AtGateway
<1>5. CASE fetch' = [fetch EXCEPT ![f].pc = "answered", ![f].answer = "refused",
                       ![f].account = NoAccount, ![f].on = NoSession, ![f].renewed = NoSession]
  <2>1. fetch' = [fetch EXCEPT ![f] = fetch'[f]]
    BY <1>5 DEF IInv, FetchShaped
  <2>2. fetch'[f] = [fetch[f] EXCEPT !.pc = "answered", !.answer = "refused",
                       !.account = NoAccount, !.on = NoSession, !.renewed = NoSession]
    BY <1>5 DEF IInv, FetchShaped
  <2>3. Shaped(f)'
    BY <1>2, <1>3, <2>2 DEF Shaped, FetchType, Answers, AtGateway
  <2>4. Own(f)'
    BY <1>1, <1>3, <2>2 DEF Own, FetchType, Running
  <2> QED BY <1>1, <1>2, <2>1, <2>3, <2>4, OneMoves DEF IInv
<1>6. CASE fetch[f].account # NoAccount /\ fetch' = [fetch EXCEPT ![f].pc = "sign_in"]
  <2>1. fetch' = [fetch EXCEPT ![f] = fetch'[f]]
    BY <1>6 DEF IInv, FetchShaped
  <2>2. fetch'[f] = [fetch[f] EXCEPT !.pc = "sign_in"]
    BY <1>6 DEF IInv, FetchShaped
  <2>3. Shaped(f)'
    BY <1>2, <1>3, <1>6, <2>2 DEF Shaped, FetchType, AtGateway
  <2>4. Own(f)'
    BY <1>1, <1>3, <2>2 DEF Own, FetchType, Running
  <2> QED BY <1>1, <1>2, <2>1, <2>3, <2>4, OneMoves DEF IInv
<1> QED BY <1>4, <1>5, <1>6 DEF Fetch, Answers

\* A renewed session is of the account that came with the one it replaces.
LEMMA RenewKeeps ==
  ASSUME IInv, NEW f \in Fetches, Renew(f)
  PROVE  IInv'
<1>1. UNCHANGED <<now, user, mixed, phone>>
  BY DEF Renew, World
<1>2. /\ fetch[f] \in FetchType /\ fetch[f].pc = "sign_in" /\ Running(f) /\ Own(f)
      /\ fetch[f].account \in Accounts /\ fetch[f].account # NoAccount
      /\ fetch[f].on # NoSession
  <2>0. fetch[f].pc = "sign_in" /\ Shaped(f) /\ Own(f)
    BY DEF Renew, At, IInv, FetchShaped, FetchOwn
  <2>1. fetch[f] \in FetchType
    BY <2>0 DEF Shaped, Idle
  <2>2. fetch[f].account # NoAccount /\ fetch[f].on # NoSession
    BY <2>0 DEF Shaped, Idle, AtGateway
  <2>3. fetch[f].account \in Accounts
    BY <2>1, <2>2 DEF FetchType
  <2> QED BY <2>0, <2>1, <2>2, <2>3 DEF Running
<1>3. CASE UNCHANGED <<Vtop, kept>> /\ (Answered(f, "refused") \/ Answered(f, "expired"))
  <2>1. FetchShaped' /\ FetchOwn'
    BY <1>1, <1>2, <1>3, AnsweredKeeps DEF IInv, Answers, Vtop
  <2>2. Types' /\ EdgeOwn' /\ PhoneOwn' /\ KeptOwn'
    BY <1>1, <1>3 DEF IInv, Types, EdgeOwn, PhoneOwn, KeptOwn, Made, Vtop
  <2> QED BY <2>1, <2>2 DEF IInv
<1>4. CASE \E s \in Sessions :
             /\ SignedIn(fetch[f].account, TRUE, s)
             /\ Keeps(fetch[f].of, s, fetch[f].account)
             /\ fetch' = [fetch EXCEPT ![f].pc = "again", ![f].on = s, ![f].renewed = s]
  <2> DEFINE a == fetch[f].account
  <2>1. PICK s \in Sessions :
          /\ SignedIn(a, TRUE, s)
          /\ Keeps(fetch[f].of, s, a)
          /\ fetch' = [fetch EXCEPT ![f].pc = "again", ![f].on = s, ![f].renewed = s]
    BY <1>4
  <2>2. /\ owner' \in Seq(Accounts)
        /\ Made \subseteq Made' /\ s \in Made'
        /\ \A i \in Made : owner'[i] = owner[i]
        /\ owner'[s] = a
        /\ edge' \in [Accounts -> {NoSession} \cup Made']
        /\ EdgeOwn'
    BY <1>2, <2>1, SignedInGives DEF IInv, Types
  <2>3. kept' \in [Devices -> KeptType] /\ KeptOwn'
    <3>1. fetch[f].of \in Devices /\ s \in Nat /\ a \in Accounts \cup {NoAccount}
      BY <1>2 DEF FetchType, Devices, Sessions
    <3> QED BY <1>1, <2>1, <2>2, <3>1, KeepsKeeps DEF IInv, Types
  <2>4. Types'
    BY <1>1, <2>2, <2>3 DEF IInv, Types
  <2>5. PhoneOwn'
    BY <1>1, <2>2 DEF IInv, Types, PhoneOwn
  <2>6. fetch' = [fetch EXCEPT ![f] = fetch'[f]]
    BY <2>1 DEF IInv, FetchShaped
  <2>7. fetch'[f] = [fetch[f] EXCEPT !.pc = "again", !.on = s, !.renewed = s]
    BY <2>1 DEF IInv, FetchShaped
  <2>8. Shaped(f)'
    <3>1. s # NoSession
      BY DEF Sessions, NoSession
    <3>2. fetch'[f] \in FetchType'
      BY <1>2, <2>2, <2>7 DEF FetchType, AtGateway
    <3> QED BY <1>2, <2>7, <3>1, <3>2 DEF Shaped, FetchType
  <2>9. Own(f)'
    BY <1>1, <1>2, <2>2, <2>7 DEF Own, FetchType, Running
  <2>10. FetchShaped' /\ FetchOwn'
    BY <1>1, <2>2, <2>6, <2>8, <2>9, OneMoves DEF IInv
  <2> QED BY <2>2, <2>3, <2>4, <2>5, <2>10 DEF IInv
<1> QED BY <1>3, <1>4 DEF Renew

\* Entries that go leave the others as they were.
LEMMA ForgetKeeps ==
  ASSUME IInv, UNCHANGED <<owner, mixed>>,
         kept' \in [Devices -> KeptType],
         \A p \in Devices : kept'[p] \in {kept[p], Nothing}
  PROVE  KeptOwn'
<1> SUFFICES ASSUME NEW p \in Phones \ mixed, kept'[p].account # NoAccount
             PROVE  kept'[p].session \in Made /\ owner[kept'[p].session] = kept'[p].account
  BY DEF KeptOwn, Made
<1>1. p \in Devices /\ kept'[p] = kept[p]
  BY DEF Devices, Nothing
<1> QED BY <1>1 DEF IInv, KeptOwn

LEMMA SweepKeeps ==
  ASSUME IInv, Sweep
  PROVE  IInv'
<1>1. UNCHANGED <<now, owner, edge, user, mixed, phone, fetch>>
  BY DEF Sweep, World, Vtop
<1>2. FetchShaped' /\ FetchOwn' /\ EdgeOwn' /\ PhoneOwn' /\ Made' = Made
  BY <1>1 DEF IInv, FetchShaped, Shaped, FetchOwn, Own, FetchType, Running, EdgeOwn, PhoneOwn, Made
<1>3. /\ kept' \in [Devices -> KeptType]
      /\ \A p \in Devices : kept'[p] \in {kept[p], Nothing}
  BY DEF Sweep, IInv, Types, KeptType, Nothing, NoSession
<1> QED BY <1>1, <1>2, <1>3, ForgetKeeps DEF IInv, Types

LEMMA RestartKeeps ==
  ASSUME IInv, Restart
  PROVE  IInv'
<1>1. UNCHANGED <<now, owner, edge, user, mixed, phone>>
  BY DEF Restart, Vtop
<1>2. EdgeOwn' /\ PhoneOwn' /\ Made' = Made
  BY <1>1 DEF IInv, EdgeOwn, PhoneOwn, Made
<1>3. /\ kept' \in [Devices -> KeptType]
      /\ \A p \in Devices : kept'[p] \in {kept[p], Nothing}
  BY DEF Restart, KeptType, Nothing, NoSession
<1>4. /\ fetch' = [f \in Fetches |-> fetch'[f]]
      /\ \A f \in Fetches : fetch'[f] \in {fetch[f], Idle}
  BY DEF Restart
<1>5. ASSUME NEW f \in Fetches PROVE Shaped(f)' /\ Own(f)'
  <2>1. CASE fetch'[f] = fetch[f]
    BY <1>1, <1>2, <2>1, OthersKeep DEF IInv
  <2>2. CASE fetch'[f] = Idle
    BY <2>2 DEF Shaped, Own, Running, Idle
  <2> QED BY <1>4, <2>1, <2>2
<1> QED BY <1>1, <1>2, <1>3, <1>4, <1>5, ForgetKeeps DEF IInv, Types, FetchShaped, FetchOwn

LEMMA OtherSendsKeeps ==
  ASSUME IInv, NEW q \in Others, OtherSends(q)
  PROVE  IInv'
<1>1. UNCHANGED <<now, owner, edge, user, mixed, phone, fetch>>
  BY DEF OtherSends, Vtop
<1>2. FetchShaped' /\ FetchOwn' /\ EdgeOwn' /\ PhoneOwn' /\ Made' = Made
  BY <1>1 DEF IInv, FetchShaped, Shaped, FetchOwn, Own, FetchType, Running, EdgeOwn, PhoneOwn, Made
<1>3. kept' \in [Devices -> KeptType] /\ KeptOwn'
  <2>1. Keeps(q, Elsewhere, NoAccount) /\ q \in Devices /\ Elsewhere \in Nat
    BY LimitsAssumption DEF OtherSends, Devices, Elsewhere
  <2> QED BY <1>1, <1>2, <2>1, KeepsKeeps DEF IInv, Types
<1> QED BY <1>1, <1>2, <1>3 DEF IInv, Types

LEMMA HourKeeps ==
  ASSUME IInv, Hour
  PROVE  IInv'
<1>1. UNCHANGED <<owner, edge, user, mixed, phone, kept>> /\ now' = now + 1
  BY DEF Hour, Vtop
<1>2. Types' /\ EdgeOwn' /\ PhoneOwn' /\ KeptOwn' /\ Made' = Made
  BY <1>1 DEF IInv, Types, EdgeOwn, PhoneOwn, KeptOwn, Made
<1>3. ASSUME NEW f \in Fetches PROVE Shaped(f)' /\ Own(f)'
  <2>1. CASE ~Exchanging(f)
    <3>1. fetch'[f] = fetch[f]
      BY <2>1 DEF Hour
    <3> QED BY <1>1, <1>2, <3>1, OthersKeep DEF IInv
  <2>2. CASE Exchanging(f)
    <3>1. fetch'[f] = [fetch[f] EXCEPT !.crossed = TRUE]
      BY <2>2 DEF Hour
    <3>2. Running(f) /\ fetch[f] \in FetchType /\ Shaped(f) /\ Own(f)
      BY <2>2 DEF Exchanging, IInv, FetchShaped, FetchOwn, Shaped, Idle, Running
    <3>3. Shaped(f)'
      BY <1>2, <3>1, <3>2 DEF Shaped, FetchType, Idle
    <3>4. Own(f)'
      BY <1>1, <3>1, <3>2 DEF Own, FetchType, Running
    <3> QED BY <3>3, <3>4
  <2> QED BY <2>1, <2>2
<1>4. fetch' = [f \in Fetches |-> fetch'[f]]
  BY DEF Hour
<1> QED BY <1>2, <1>3, <1>4 DEF IInv, FetchShaped, FetchOwn

\* A student who signs in has no session yet.
LEMMA SwitchKeeps ==
  ASSUME IInv, NEW p \in Phones, NEW a \in Accounts, Switch(p, a)
  PROVE  IInv'
<1>1. UNCHANGED <<now, owner, edge, mixed, kept, fetch>>
  BY DEF Switch, Vtop
<1>2. FetchShaped' /\ FetchOwn' /\ EdgeOwn' /\ KeptOwn' /\ Made' = Made
  BY <1>1 DEF IInv, FetchShaped, Shaped, FetchOwn, Own, FetchType, Running, EdgeOwn, KeptOwn, Made
<1>3. /\ user' = [user EXCEPT ![p] = a]
      /\ phone' = [phone EXCEPT ![p] = NoSession]
  BY DEF Switch
<1>4. Types'
  BY <1>1, <1>2, <1>3 DEF IInv, Types
<1>5. PhoneOwn'
  BY <1>1, <1>3 DEF IInv, Types, PhoneOwn
<1> QED BY <1>2, <1>4, <1>5 DEF IInv

\* What no part of the invariant reads.
LEMMA RestKeeps ==
  ASSUME IInv, UNCHANGED <<now, owner, edge, user, mixed, phone, kept, fetch>>
  PROVE  IInv'
BY DEF IInv, Types, FetchShaped, Shaped, FetchOwn, Own, FetchType, Running, EdgeOwn, PhoneOwn,
       KeptOwn, Made

LEMMA InitKeeps == Init => IInv
<1> SUFFICES ASSUME Init PROVE IInv
  OBVIOUS
<1>1. Types
  BY DEF Init, Types, KeptType, Nothing, NoSession
<1>2. FetchShaped /\ FetchOwn
  BY DEF Init, FetchShaped, Shaped, FetchOwn, Own, Running, Idle
<1>3. EdgeOwn /\ PhoneOwn /\ KeptOwn
  BY DEF Init, EdgeOwn, PhoneOwn, KeptOwn, Nothing, Devices
<1> QED BY <1>1, <1>2, <1>3 DEF IInv

LEMMA NextKeeps ==
  ASSUME IInv, [Next]_vars
  PROVE  IInv'
<1>1. ASSUME NEW f \in Fetches,
             AtPhone(f) \/ GiveUp(f) \/ Lost(f) \/ Busy(f) \/ Gateway(f)
      PROVE  IInv'
  BY <1>1, AskKeeps, HearKeeps, AdoptKeeps, ReloginKeeps, GiveUpKeeps, LostKeeps, BusyKeeps, ServeKeeps,
     FetchKeeps, RenewKeeps DEF AtPhone, Gateway
<1>2. ASSUME NEW p \in Phones,
             SignIn(p) \/ Allow(p) \/ \E f \in Fetches : Start(f, p)
      PROVE  IInv'
  <2>1. CASE Allow(p)
    BY <2>1, RestKeeps DEF Allow, Vtop
  <2> QED BY <1>2, <2>1, SignInKeeps, StartKeeps
<1>3. ASSUME NEW p \in Phones, NEW a \in Accounts, Switch(p, a) PROVE IInv'
  BY <1>3, SwitchKeeps
<1>4. ASSUME NEW s \in Made, Drop(s) PROVE IInv'
  BY <1>4, RestKeeps DEF Drop, Vtop
<1>5. ASSUME NEW q \in Others, OtherSends(q) PROVE IInv'
  BY <1>5, OtherSendsKeeps
<1>6. CASE Sweep \/ Restart \/ Hour
  BY <1>6, SweepKeeps, RestartKeeps, HourKeeps
<1>7. CASE UNCHANGED vars
  BY <1>7, RestKeeps DEF vars
<1> QED BY <1>1, <1>2, <1>3, <1>4, <1>5, <1>6, <1>7 DEF Next

LEMMA PagesAreOwned == IInv => OwnPages
<1> SUFFICES ASSUME IInv, NEW f \in Fetches, At(f, "answered"), fetch[f].answer = "page",
                    fetch[f].of \notin mixed
             PROVE  owner[fetch[f].on] = owner[fetch[f].named]
  BY DEF OwnPages
<1>1. Running(f) /\ fetch[f].pc = "answered" /\ Shaped(f) /\ Own(f)
  BY DEF Running, At, IInv, FetchShaped, FetchOwn
<1>2. fetch[f].on # NoSession
  BY <1>1 DEF Shaped, Idle
<1> QED BY <1>1, <1>2 DEF Own

\* Every page is from the account of the session its fetch named, however
\* fetches, renewals, restarts and students interleave, unless the phone ever
\* sent a session with another's account or adopted one of another account: of
\* any number of phones, accounts,
\* fetches and sessions, and whatever the hours, the capacity and the budget.
THEOREM PagesAreOwn == Spec => []OwnPages
<1>1. IInv /\ [Next]_vars => IInv'
  BY NextKeeps
<1> QED BY InitKeeps, <1>1, PagesAreOwned, PTL DEF Spec
-----------------------------------------------------------------------------
(***************************************************************************)
(* The phone sends its session again before the gateway                    *)
(* forgets it, though the two count its age from different moments.        *)
(*                                                                         *)
(* An exchange is crossed by at most one hour.  So what the gateway holds  *)
(* for a fetch that brought a session, or had one renewed, is at most an   *)
(* hour old when the answer comes (Soon); the phone's note is at most an   *)
(* hour younger than the gateway's entry (NotedSoon); and a request that   *)
(* names a session noted less than Resend hours ago comes within Resend    *)
(* and one hours of the entry (Soon).                                      *)
(***************************************************************************)
Crossed(f) == IF fetch[f].crossed THEN 1 ELSE 0

Within(p, s, hours) == kept[p].session = s => now <= kept[p].at + hours

Soon(f) ==
  Running(f) =>
    /\ fetch[f].pc = "asked" /\ ~fetch[f].carries /\ fetch[f].of \notin misled
         => Within(fetch[f].of, fetch[f].named, Resend + Crossed(f))
    /\ fetch[f].pc \in AtGateway \cup {"answered"} /\ fetch[f].carries /\ fetch[f].of \notin misled
         => Within(fetch[f].of, fetch[f].named, Crossed(f))
    /\ fetch[f].renewed # NoSession
         => Within(fetch[f].of, fetch[f].renewed, Crossed(f))

SentType ==
  /\ sent \in [Phones -> [session: Nat, at: Nat]] /\ misled \subseteq Phones
  /\ \A p \in Phones : sent[p].at <= now

NotedSoon ==
  \A p \in Phones \ misled :
    sent[p].session # NoSession /\ kept[p].session = sent[p].session
      => sent[p].at <= kept[p].at + 1

TInv == IInv /\ SentType /\ NotedSoon /\ \A f \in Fetches : Soon(f)

\* What the gateway does to its entries: one that changes is new, or gone.
Fresher ==
  \A p \in Phones : kept'[p] = kept[p] \/ kept'[p].session = NoSession \/ kept'[p].at = now

LEMMA Entries ==
  ASSUME IInv
  PROVE  now \in Nat /\ \A p \in Phones : kept[p].at \in Nat /\ kept[p].session \in Nat
BY DEF IInv, Types, KeptType, Devices

LEMMA Runs ==
  ASSUME IInv, NEW f \in Fetches, Running(f)
  PROVE  /\ fetch[f] \in FetchType /\ fetch[f].of \in Phones /\ fetch[f].named # NoSession
         /\ Crossed(f) \in {0, 1}
<1>1. fetch[f] \in FetchType
  BY DEF IInv, FetchShaped, Shaped, Running, Idle
<1>2. fetch[f].of \in Phones /\ fetch[f].named \in Made
  BY <1>1 DEF FetchType
<1> QED BY <1>1, <1>2 DEF Made, NoSession, Crossed

\* Fetches that do not move stay in time while the gateway's entries only get
\* newer and no hour strikes.
LEMMA OthersSoon ==
  ASSUME TInv, IInv', now' = now, misled \subseteq misled', Fresher,
         NEW g \in Fetches, fetch'[g] = fetch[g]
  PROVE  Soon(g)'
<1> SUFFICES ASSUME Running(g)' PROVE Soon(g)'
  BY DEF Soon
<1>1. Running(g) /\ Soon(g)
  BY DEF Running, TInv
<1>2. /\ fetch[g].of \in Phones /\ fetch[g].named # NoSession
      /\ Crossed(g) \in {0, 1} /\ Crossed(g)' = Crossed(g)
  BY <1>1, Runs DEF TInv, Crossed
<1>3. /\ now \in Nat /\ kept'[fetch[g].of].at \in Nat
      /\ \/ kept'[fetch[g].of] = kept[fetch[g].of]
         \/ kept'[fetch[g].of].session = NoSession
         \/ kept'[fetch[g].of].at = now
  <2>1. \A p \in Phones : kept'[p].at \in Nat
    BY DEF IInv, Types, KeptType, Devices
  <2> QED BY <1>2, <2>1, Entries DEF TInv, Fresher
<1> QED
  BY <1>1, <1>2, <1>3, HoursAssumption DEF Soon, Within

\* A step of the fetches and of the gateway, within the hour.
LEMMA StepInTime ==
  ASSUME TInv, IInv', UNCHANGED <<now, sent>>, misled \subseteq misled', misled' \subseteq Phones,
         Fresher, \A g \in Fetches : fetch'[g] = fetch[g] \/ Soon(g)'
  PROVE  TInv'
<1>1. SentType'
  BY DEF TInv, SentType
<1>2. \A g \in Fetches : Soon(g)'
  BY OthersSoon
<1>3. NotedSoon'
  <2> SUFFICES ASSUME NEW p \in Phones \ misled', sent[p].session # NoSession,
                      kept'[p].session = sent[p].session
               PROVE  sent[p].at <= kept'[p].at + 1
    BY DEF NotedSoon
  <2>1. /\ now \in Nat /\ sent[p].at \in Nat /\ sent[p].at <= now
        /\ kept[p].session = sent[p].session => sent[p].at <= kept[p].at + 1
    BY Entries DEF TInv, SentType, NotedSoon
  <2> QED BY <2>1 DEF Fresher
<1> QED BY <1>1, <1>2, <1>3 DEF TInv

\* One fetch moves.
LEMMA OneStepInTime ==
  ASSUME TInv, IInv', UNCHANGED <<now, sent>>, misled \subseteq misled', misled' \subseteq Phones,
         Fresher, NEW f \in Fetches, fetch' = [fetch EXCEPT ![f] = fetch'[f]],
         ~Running(f)' \/ Soon(f)'
  PROVE  TInv'
<1>1. \A g \in Fetches \ {f} : fetch'[g] = fetch[g]
  BY DEF TInv, IInv, FetchShaped
<1>2. Soon(f)'
  BY DEF Soon
<1> QED BY <1>1, <1>2, StepInTime

\* A fetch goes on from where it was, or has just brought the gateway what it
\* asks about.
LEMMA GoesOn ==
  ASSUME TInv, NEW f \in Fetches, Running(f), UNCHANGED <<now, kept>>, misled \subseteq misled',
         /\ fetch'[f].of = fetch[f].of /\ fetch'[f].named = fetch[f].named
         /\ fetch'[f].crossed = fetch[f].crossed,
         fetch'[f].pc = "asked" => fetch'[f].carries,
         /\ fetch'[f].pc \in AtGateway \cup {"answered"} /\ fetch'[f].carries
            => \/ fetch[f].pc \in AtGateway \cup {"answered"} /\ fetch[f].carries
               \/ fetch[f].of \in misled',
         fetch'[f].renewed \in {NoSession, fetch[f].renewed}
  PROVE  Soon(f)'
<1> DEFINE held(session) ==
             kept[fetch[f].of].session = session
               => now <= kept[fetch[f].of].at + (IF fetch[f].crossed THEN 1 ELSE 0)
<1>1. Soon(f)
  BY DEF TInv
<1>2. fetch'[f].pc = "asked" /\ ~fetch'[f].carries => FALSE
  OBVIOUS
<1>3. /\ fetch'[f].pc \in AtGateway \cup {"answered"} /\ fetch'[f].carries
      /\ fetch'[f].of \notin misled'
      => held(fetch[f].named)
  BY <1>1 DEF Soon, Within, Crossed, AtGateway
<1>4. fetch'[f].renewed # NoSession => held(fetch'[f].renewed)
  BY <1>1 DEF Soon, Within, Crossed
<1> QED BY <1>2, <1>3, <1>4 DEF Soon, Within, Crossed, AtGateway

LEMMA ThereNow ==
  ASSUME IInv, IInv', UNCHANGED now, NEW f \in Fetches, fetch'[f].of \in Phones,
         fetch'[f].pc # "asked", kept'[fetch'[f].of].at = now
  PROVE  Soon(f)'
<1>1. now' <= kept'[fetch'[f].of].at + (IF fetch'[f].crossed THEN 1 ELSE 0)
  BY Entries
<1> QED BY <1>1 DEF Soon, Within, Crossed, AtGateway

LEMMA KeepsFresher ==
  ASSUME IInv, NEW p \in Devices, NEW s, NEW a, Keeps(p, s, a)
  PROVE  Fresher /\ kept'[p].at = now
<1> DEFINE new == [session |-> s, account |-> a, at |-> now]
<1>1. PICK q \in Devices : \/ kept' = [kept EXCEPT ![q] = Nothing, ![p] = new]
                           \/ kept' = [kept EXCEPT ![p] = new]
  BY DEF Keeps, Holding
<1>2. /\ kept'[p] = new
      /\ \A d \in Devices : kept'[d] \in {kept[d], Nothing, new}
  BY <1>1 DEF IInv, Types
<1> QED BY <1>2 DEF Fresher, Nothing, Devices

LEMMA StartInTime ==
  ASSUME TInv, IInv', NEW f \in Fetches, NEW p \in Phones, Start(f, p)
  PROVE  TInv'
<1>1. UNCHANGED <<now, kept, sent, misled>>
  BY DEF Start, World
<1>2. /\ fetch' = [fetch EXCEPT ![f] = fetch'[f]]
      /\ fetch'[f].pc = "begun" /\ fetch'[f].renewed = NoSession
  BY DEF Start, TInv, IInv, FetchShaped
<1>3. Soon(f)'
  BY <1>2 DEF Soon, AtGateway
<1>4. Fresher /\ misled \subseteq Phones
  BY <1>1 DEF Fresher, TInv, SentType
<1> QED BY <1>1, <1>2, <1>3, <1>4, OneStepInTime

\* What the phone's note says of the gateway when the request goes out.
LEMMA AskInTime ==
  ASSUME TInv, IInv', NEW f \in Fetches, Ask(f)
  PROVE  TInv'
<1> DEFINE p == fetch[f].of
           s == fetch[f].named
<1>1. UNCHANGED <<now, kept, sent, misled>>
  BY DEF Ask
<1>0. /\ fetch[f] \in FetchType /\ p \in Phones /\ s # NoSession /\ fetch[f].renewed = NoSession
  <2>1. Running(f) /\ fetch[f].pc = "begun"
    BY DEF Ask, At, Running
  <2>2. fetch[f].renewed = NoSession
    BY <2>1 DEF TInv, IInv, FetchShaped, Shaped, Idle
  <2> QED BY <2>1, <2>2, Runs DEF TInv
<1>2. /\ fetch' = [fetch EXCEPT ![f] = fetch'[f]]
      /\ fetch'[f].pc = "asked" /\ fetch'[f].of = p /\ fetch'[f].named = s
      /\ fetch'[f].carries = ~GatewayHas(p, s) /\ fetch'[f].renewed = NoSession
      /\ fetch'[f].crossed \in BOOLEAN
  <2>1. PICK may, account :
          fetch' = [fetch EXCEPT ![f].pc = "asked", ![f].may = may, ![f].carries = ~GatewayHas(p, s),
                      ![f].account = account]
    BY DEF Ask
  <2> QED BY <1>0, <2>1 DEF TInv, IInv, FetchShaped, FetchType
<1>3. ASSUME GatewayHas(p, s), p \notin misled, kept[p].session = s
      PROVE  now <= kept[p].at + Resend
  <2>1. sent[p].session = s /\ now - sent[p].at < Resend
    BY <1>3 DEF GatewayHas
  <2>2. sent[p].at <= kept[p].at + 1
    BY <1>0, <1>3, <2>1 DEF TInv, NotedSoon
  <2>3. now \in Nat /\ kept[p].at \in Nat /\ sent[p].at \in Nat
    BY <1>0, Entries DEF TInv, SentType
  <2> QED BY <2>1, <2>2, <2>3, HoursAssumption
<1>4. Soon(f)'
  <2>0. kept[p].at \in Nat /\ now \in Nat
    BY <1>0, Entries DEF TInv
  <2>2. ~fetch'[f].carries /\ p \notin misled
        => (kept[p].session = s
              => now <= kept[p].at + (Resend + (IF fetch'[f].crossed THEN 1 ELSE 0)))
    <3> SUFFICES ASSUME ~fetch'[f].carries, p \notin misled, kept[p].session = s
                 PROVE  now <= kept[p].at + (Resend + (IF fetch'[f].crossed THEN 1 ELSE 0))
      OBVIOUS
    <3>1. GatewayHas(p, s)
      <4> HIDE DEF p, s
      <4> QED BY <1>2
    <3>2. now <= kept[p].at + Resend
      BY <1>3, <3>1
    <3> QED BY <2>0, <3>2, HoursAssumption
  <2> HIDE DEF p, s
  <2> QED BY <1>1, <1>2, <2>2 DEF Soon, Within, Crossed, AtGateway
<1>5. Fresher /\ misled \subseteq Phones
  BY <1>1 DEF Fresher, TInv, SentType
<1> QED BY <1>1, <1>2, <1>4, <1>5, OneStepInTime

\* What the phone notes, the gateway got in this exchange.
LEMMA HearInTime ==
  ASSUME TInv, IInv', NEW f \in Fetches, Hear(f)
  PROVE  TInv'
<1>1. UNCHANGED <<now, kept, misled>>
  BY DEF Hear, World
<1>2. /\ Running(f) /\ fetch[f].pc = "answered" /\ fetch[f] \in FetchType
      /\ fetch[f].of \in Phones /\ Crossed(f) \in {0, 1} /\ Soon(f)
  BY Runs DEF Hear, At, Running, TInv
<1>3. /\ fetch' = [fetch EXCEPT ![f] = fetch'[f]]
      /\ ~Running(f)' \/ fetch'[f] \in {[fetch[f] EXCEPT !.pc = "adopt"],
              [fetch[f] EXCEPT !.pc = "asked", !.carries = TRUE, !.account = fetch[f].may, !.answer = "none"]}
  BY DEF Hear, Finishes, Ends, TInv, IInv, FetchShaped, Running, Idle
<1>4. Soon(f)'
  <2>1. CASE ~Running(f)'
    BY <2>1 DEF Soon
  <2>2. CASE fetch'[f] \in {[fetch[f] EXCEPT !.pc = "adopt"],
              [fetch[f] EXCEPT !.pc = "asked", !.carries = TRUE, !.account = fetch[f].may, !.answer = "none"]}
    BY <1>1, <1>2, <2>2, GoesOn DEF AtGateway, FetchType
  <2> QED BY <1>3, <2>1, <2>2
<1>5. \A g \in Fetches : Soon(g)'
  <2>1. \A g \in Fetches \ {f} : fetch'[g] = fetch[g]
    BY <1>3 DEF TInv, IInv, FetchShaped
  <2> QED BY <1>1, <1>4, <2>1, OthersSoon DEF Fresher
<1>6. \/ sent' = sent
      \/ \E s \in Nat :
           /\ sent' = [sent EXCEPT ![fetch[f].of] = [session |-> s, at |-> now]]
           /\ fetch[f].of \notin misled => Within(fetch[f].of, s, Crossed(f))
  <2>1. CASE UNCHANGED sent
    BY <2>1
  <2>2. CASE Notes(f) /\ fetch[f].renewed # NoSession
    <3>1. sent' = [sent EXCEPT ![fetch[f].of] = [session |-> fetch[f].renewed, at |-> now]]
      BY <2>2 DEF Notes
    <3>2. fetch[f].renewed \in Nat /\ Within(fetch[f].of, fetch[f].renewed, Crossed(f))
      BY <1>2, <2>2 DEF Soon, FetchType, Made
    <3> QED BY <3>1, <3>2
  <2>3. CASE Notes(f) /\ fetch[f].renewed = NoSession
    <3>1. \/ UNCHANGED sent
          \/ /\ sent' = [sent EXCEPT ![fetch[f].of] = [session |-> fetch[f].named, at |-> now]]
             /\ fetch[f].carries
      BY <2>3 DEF Notes
    <3>2. fetch[f].named \in Nat
      BY <1>2 DEF FetchType, Made
    <3>3. fetch[f].carries /\ fetch[f].of \notin misled => Within(fetch[f].of, fetch[f].named, Crossed(f))
      BY <1>2 DEF Soon
    <3> QED BY <3>1, <3>2, <3>3
  <2> QED BY <2>1, <2>2, <2>3 DEF Hear
<1>7. CASE sent' = sent
  BY <1>1, <1>5, <1>7 DEF TInv, SentType, NotedSoon
<1>8. CASE \E s \in Nat :
             /\ sent' = [sent EXCEPT ![fetch[f].of] = [session |-> s, at |-> now]]
             /\ fetch[f].of \notin misled => Within(fetch[f].of, s, Crossed(f))
  <2> DEFINE p == fetch[f].of
  <2>1. PICK s \in Nat : /\ sent' = [sent EXCEPT ![p] = [session |-> s, at |-> now]]
                         /\ p \notin misled => Within(p, s, Crossed(f))
    BY <1>8
  <2>2. /\ sent' \in [Phones -> [session: Nat, at: Nat]]
        /\ sent'[p] = [session |-> s, at |-> now]
        /\ \A q \in Phones \ {p} : sent'[q] = sent[q]
    BY <1>2, <2>1, Entries DEF TInv, SentType
  <2>3. SentType'
    BY <1>1, <2>2, Entries DEF TInv, SentType
  <2>4. p \notin misled /\ kept[p].session = s => now <= kept[p].at + 1
    BY <1>2, <2>1, Entries DEF Within, TInv
  <2>5. NotedSoon'
    BY <1>1, <2>2, <2>4 DEF TInv, NotedSoon
  <2> QED BY <1>5, <2>3, <2>5 DEF TInv
<1> QED BY <1>6, <1>7, <1>8

\* The phone's and the network's other steps leave the gateway alone.
LEMMA PhoneInTime ==
  ASSUME TInv, IInv', NEW f \in Fetches, Adopt(f) \/ Relogin(f) \/ GiveUp(f) \/ Lost(f) \/ Busy(f)
  PROVE  TInv'
<1>1. UNCHANGED <<now, kept, sent>>
  BY DEF Adopt, Relogin, GiveUp, Lost, Busy, World
<1>2. fetch' = [fetch EXCEPT ![f] = fetch'[f]]
  BY DEF Adopt, Relogin, GiveUp, Lost, Busy, Finishes, Ends, Answered, TInv, IInv, FetchShaped
<1>3. Fresher /\ misled \subseteq Phones
  BY <1>1 DEF Fresher, TInv, SentType
<1>4. CASE (Adopt(f) \/ Relogin(f) \/ Lost(f))
  <2>1. misled' = misled
    BY <1>4 DEF Adopt, Relogin, Lost, World
  <2>2. ~Running(f)'
    BY <1>4 DEF Adopt, Relogin, Lost, Finishes, Ends, TInv, IInv, FetchShaped, Running, Idle
  <2> QED BY <1>1, <1>2, <1>3, <2>1, <2>2, OneStepInTime
<1>5. CASE GiveUp(f)
  <2>1. misled' = misled /\ Running(f)
    BY <1>5 DEF GiveUp, World, Running, AtGateway
  <2>2. fetch[f] \in FetchType /\ fetch'[f] = [fetch[f] EXCEPT !.gone = TRUE, !.may = NoAccount]
    BY <1>5, <2>1, Runs DEF GiveUp, TInv, IInv, FetchShaped
  <2>3. Soon(f)'
    BY <1>1, <2>1, <2>2 DEF TInv, Soon, Within, Crossed, FetchType, Running
  <2> QED BY <1>1, <1>2, <1>3, <2>1, <2>3, OneStepInTime
<1>6. CASE Busy(f)
  <2>1. Running(f) /\ fetch[f].pc = "asked"
    BY <1>6 DEF Busy, At, Running
  <2>2. /\ fetch[f] \in FetchType /\ fetch[f].of \in Phones
        /\ fetch'[f] = [fetch[f] EXCEPT !.pc = "answered", !.answer = "refused", !.account = NoAccount,
                          !.on = NoSession]
    BY <1>6, <2>1, Runs DEF Busy, Answered, TInv, IInv, FetchShaped
  <2>3. /\ misled \subseteq misled' /\ misled' \subseteq Phones
        /\ fetch[f].carries => fetch[f].of \in misled'
    BY <1>3, <1>6, <2>2 DEF Busy
  <2>4. Soon(f)'
    BY <1>1, <2>1, <2>2, <2>3, GoesOn DEF FetchType, AtGateway
  <2> QED BY <1>1, <1>2, <1>3, <2>3, <2>4, OneStepInTime
<1> QED BY <1>4, <1>5, <1>6

\* The gateway has a session anew when a request brings it and when it renews
\* it.
LEMMA GatewayInTime ==
  ASSUME TInv, IInv', NEW f \in Fetches, Gateway(f)
  PROVE  TInv'
<1>1. UNCHANGED <<now, sent, misled>> /\ misled \subseteq Phones
  BY DEF Gateway, Serve, Fetch, Renew, World, TInv, SentType
<1>2. fetch' = [fetch EXCEPT ![f] = fetch'[f]]
  BY DEF Gateway, Serve, Fetch, Renew, Answered, TInv, IInv, FetchShaped
<1>3. Running(f) /\ fetch[f] \in FetchType /\ fetch[f].of \in Phones /\ fetch[f].of \in Devices
  BY Runs DEF Gateway, Serve, Fetch, Renew, At, Running, TInv, Devices
<1>4. CASE Serve(f)
  <2>1. /\ fetch'[f].of = fetch[f].of /\ fetch'[f].pc # "asked"
        /\ fetch'[f].named = fetch[f].named /\ fetch'[f].renewed = fetch[f].renewed
        /\ fetch'[f].carries = fetch[f].carries /\ fetch'[f].crossed = fetch[f].crossed
    BY <1>3, <1>4 DEF Serve, Answered, TInv, IInv, FetchShaped, FetchType
  <2>2. CASE Keeps(fetch[f].of, fetch[f].named, fetch[f].account)
    <3>1. Fresher /\ kept'[fetch[f].of].at = now
      BY <1>3, <2>2, KeepsFresher DEF TInv
    <3>2. Soon(f)'
      BY <1>1, <1>3, <2>1, <3>1, ThereNow DEF TInv
    <3> QED BY <1>1, <1>2, <3>1, <3>2, OneStepInTime
  <2>3. CASE kept' = [kept EXCEPT ![fetch[f].of].at = now]
    <3>1. Fresher /\ kept'[fetch[f].of].at = now
      BY <1>3, <2>3 DEF TInv, IInv, Types, KeptType, Fresher, Devices
    <3>2. Soon(f)'
      BY <1>1, <1>3, <2>1, <3>1, ThereNow DEF TInv
    <3> QED BY <1>1, <1>2, <3>1, <3>2, OneStepInTime
  <2>4. CASE ~fetch[f].carries /\ UNCHANGED kept
    <3>1. Soon(f)'
      BY <1>1, <1>3, <2>1, <2>4, GoesOn
    <3> QED BY <1>1, <1>2, <2>4, <3>1, OneStepInTime DEF Fresher
  <2> QED BY <1>4, <2>2, <2>3, <2>4 DEF Serve
<1>5. CASE Fetch(f)
  <2>1. UNCHANGED kept /\ fetch[f].pc \in AtGateway
    BY <1>5 DEF Fetch, At, AtGateway
  <2>2. /\ fetch'[f].of = fetch[f].of /\ fetch'[f].pc # "asked"
        /\ fetch'[f].named = fetch[f].named /\ fetch'[f].renewed \in {NoSession, fetch[f].renewed}
        /\ fetch'[f].carries = fetch[f].carries /\ fetch'[f].crossed = fetch[f].crossed
    BY <1>3, <1>5 DEF Fetch, Answered, TInv, IInv, FetchShaped, FetchType
  <2>3. Soon(f)'
    BY <1>1, <1>3, <2>1, <2>2, GoesOn
  <2> QED BY <1>1, <1>2, <2>1, <2>3, OneStepInTime DEF Fresher
<1>6. CASE Renew(f)
  <2>1. /\ fetch'[f].of = fetch[f].of /\ fetch'[f].pc # "asked"
        /\ fetch'[f].named = fetch[f].named
        /\ fetch'[f].carries = fetch[f].carries /\ fetch'[f].crossed = fetch[f].crossed
    <3>1. CASE \E s \in Sessions :
                 fetch' = [fetch EXCEPT ![f].pc = "again", ![f].on = s, ![f].renewed = s]
      <4>1. PICK s \in Sessions : fetch'[f] = [fetch[f] EXCEPT !.pc = "again", !.on = s, !.renewed = s]
        BY <3>1 DEF TInv, IInv, FetchShaped
      <4> QED BY <1>3, <4>1 DEF FetchType
    <3>2. CASE Answered(f, "refused") \/ Answered(f, "expired")
      BY <1>3, <3>2 DEF Answered, TInv, IInv, FetchShaped, FetchType
    <3> QED BY <1>6, <3>1, <3>2 DEF Renew
  <2>2. CASE \E s \in Sessions : Keeps(fetch[f].of, s, fetch[f].account)
    <3>1. Fresher /\ kept'[fetch[f].of].at = now
      BY <1>3, <2>2, KeepsFresher DEF TInv
    <3>2. Soon(f)'
      BY <1>1, <1>3, <2>1, <3>1, ThereNow DEF TInv
    <3> QED BY <1>1, <1>2, <3>1, <3>2, OneStepInTime
  <2>3. CASE UNCHANGED kept /\ (Answered(f, "refused") \/ Answered(f, "expired"))
    <3>1. fetch'[f].renewed = fetch[f].renewed
      BY <1>3, <2>3 DEF Answered, TInv, IInv, FetchShaped, FetchType
    <3>2. fetch[f].pc \in AtGateway
      BY <1>6 DEF Renew, At, AtGateway
    <3>3. Soon(f)'
      BY <1>1, <1>3, <2>1, <2>3, <3>1, <3>2, GoesOn
    <3> QED BY <1>1, <1>2, <2>3, <3>3, OneStepInTime DEF Fresher
  <2> QED BY <1>6, <2>2, <2>3 DEF Renew
<1> QED BY <1>4, <1>5, <1>6 DEF Gateway

\* What leaves the fetches alone, or ends them.
LEMMA AroundInTime ==
  ASSUME TInv, IInv',
         \/ Sweep \/ Restart \/ \E q \in Others : OtherSends(q)
         \/ \E s \in Made : Drop(s)
         \/ \E p \in Phones : SignIn(p) \/ Allow(p) \/ \E a \in Accounts : Switch(p, a)
         \/ UNCHANGED vars
  PROVE  TInv'
<1>1. UNCHANGED <<now, sent, misled>> /\ misled \subseteq Phones
  BY DEF Sweep, Restart, OtherSends, Drop, SignIn, Allow, Switch, World, vars, TInv, SentType
<1>2. Fresher
  <2>1. CASE Sweep \/ Restart
    BY <2>1 DEF Sweep, Restart, Fresher, Devices, Nothing
  <2>2. ASSUME NEW q \in Others, OtherSends(q) PROVE Fresher
    BY <2>2, KeepsFresher DEF OtherSends, TInv, Devices
  <2>3. CASE UNCHANGED kept
    BY <2>3 DEF Fresher
  <2> QED BY <2>1, <2>2, <2>3 DEF Drop, SignIn, Allow, Switch, vars
<1>3. \A g \in Fetches : fetch'[g] = fetch[g] \/ Soon(g)'
  <2>1. CASE Restart
    BY <2>1 DEF Restart, Soon, Running, Idle
  <2>2. CASE UNCHANGED fetch
    BY <2>2
  <2> QED BY <2>1, <2>2 DEF Sweep, OtherSends, Drop, SignIn, Allow, Switch, vars
<1> QED BY <1>1, <1>2, <1>3, StepInTime

\* An hour counts once in every exchange that is under way.
LEMMA HourInTime ==
  ASSUME TInv, IInv', Hour
  PROVE  TInv'
<1>1. UNCHANGED <<kept, sent, misled>> /\ now' = now + 1 /\ now \in Nat
  BY Entries DEF Hour, TInv
<1>2. SentType' /\ NotedSoon'
  BY <1>1 DEF TInv, SentType, NotedSoon
<1>3. ASSUME NEW f \in Fetches PROVE Soon(f)'
  <2>1. CASE ~Exchanging(f)
    <3>1. fetch'[f] = fetch[f]
      BY <2>1 DEF Hour
    <3>2. CASE Running(f)
      <4>1. fetch[f].pc = "begun" /\ fetch[f].renewed = NoSession
        BY <2>1, <3>2 DEF Exchanging, At, TInv, IInv, FetchShaped, Shaped, Running, Idle
      <4> QED BY <3>1, <4>1 DEF Soon, AtGateway
    <3> QED BY <3>1, <3>2 DEF Soon, Running
  <2>2. CASE Exchanging(f)
    <3>0. Running(f)
      BY <2>2 DEF Exchanging
    <3>1. /\ fetch[f] \in FetchType /\ fetch[f].of \in Phones /\ Soon(f)
          /\ ~fetch[f].crossed
          /\ fetch'[f] = [fetch[f] EXCEPT !.crossed = TRUE]
      BY <2>2, <3>0, Runs DEF Hour, TInv
    <3>2. kept[fetch[f].of].at \in Nat /\ Resend \in Nat
      BY <3>1, Entries, HoursAssumption DEF TInv
    <3> QED BY <1>1, <3>0, <3>1, <3>2 DEF Soon, Within, Crossed, Running, AtGateway, FetchType
  <2> QED BY <2>1, <2>2
<1> QED BY <1>2, <1>3 DEF TInv

LEMMA InitInTime == Init => TInv
<1> SUFFICES ASSUME Init PROVE TInv
  OBVIOUS
<1>1. SentType /\ NotedSoon
  BY DEF Init, SentType, NotedSoon, NoSession
<1>2. \A f \in Fetches : Soon(f)
  BY DEF Init, Soon, Running, Idle
<1> QED BY <1>1, <1>2, InitKeeps DEF TInv

LEMMA NextInTime ==
  ASSUME TInv, [Next]_vars
  PROVE  TInv'
<1>1. IInv'
  BY NextKeeps DEF TInv
<1>2. ASSUME NEW f \in Fetches,
             AtPhone(f) \/ GiveUp(f) \/ Lost(f) \/ Busy(f) \/ Gateway(f)
      PROVE  TInv'
  BY <1>1, <1>2, AskInTime, HearInTime, PhoneInTime, GatewayInTime DEF AtPhone
<1>3. ASSUME NEW p \in Phones, NEW f \in Fetches, Start(f, p) PROVE TInv'
  BY <1>1, <1>3, StartInTime
<1>4. CASE Hour
  BY <1>1, <1>4, HourInTime
<1> QED BY <1>1, <1>2, <1>3, <1>4, AroundInTime DEF Next

LEMMA SoonEnough == TInv => NamedInTime
<1> SUFFICES ASSUME TInv, NEW f \in Fetches, At(f, "asked"), ~fetch[f].carries,
                    fetch[f].of \notin misled, kept[fetch[f].of].session = fetch[f].named
             PROVE  now - kept[fetch[f].of].at < Keep
  BY DEF NamedInTime
<1>1. Running(f) /\ fetch[f].pc = "asked" /\ Soon(f)
  BY DEF At, Running, TInv
<1>2. fetch[f].of \in Phones /\ Crossed(f) \in {0, 1}
  BY <1>1, Runs DEF TInv
<1>3. now <= kept[fetch[f].of].at + (Resend + Crossed(f))
  BY <1>1 DEF Soon, Within
<1> QED BY <1>2, <1>3, Entries, HoursAssumption DEF TInv

\* A request that only names its session never comes when the gateway has kept
\* that session for too long: for any number of phones, fetches and sessions,
\* and whatever the limits, if Resend is more than an hour short of Keep; except
\* from a phone that a busy gateway sent away.
THEOREM NamedSoonEnough == Spec => []NamedInTime
<1>1. TInv /\ [Next]_vars => TInv'
  BY NextInTime
<1> QED BY InitInTime, <1>1, SoonEnough, PTL DEF Spec
-----------------------------------------------------------------------------
(***************************************************************************)
(* The type invariant: sessions are those that were made, the phone's      *)
(* notes and the gateway's entries are not of the future, and the gateway  *)
(* has room for no more than Capacity devices, whatever brings them.       *)
(***************************************************************************)
Clocked ==
  /\ spent \in 0..Budget /\ now \in 0..spent
  /\ Len(owner) <= MaxSessions /\ dead \subseteq Made
  /\ wants \subseteq Phones /\ misled \subseteq Phones

Noted == sent \in [Phones -> [session: {NoSession} \cup Made, at: 0..now]]

Roomy ==
  /\ kept \in [Devices -> Kept]
  /\ IsFiniteSet(Holding) /\ Cardinality(Holding) <= Capacity

TypeInv == Clocked /\ Noted /\ Roomy

LEMMA Bounds ==
  ASSUME IInv, TypeInv
  PROVE  /\ Len(owner) \in Nat /\ MaxSessions \in Nat /\ Capacity \in Nat /\ Capacity > 0
         /\ Budget \in Nat /\ now \in Nat /\ spent \in Nat
         /\ Made \subseteq Sessions
BY LimitsAssumption DEF IInv, Types, TypeInv, Clocked, Made, Sessions

\* What is noted or kept stays sound while sessions and hours are only added.
LEMMA NotedOn ==
  ASSUME IInv, TypeInv, now' \in Nat, now <= now', Made \subseteq Made', UNCHANGED sent
  PROVE  Noted'
<1>1. 0..now \subseteq 0..now'
  BY Bounds
<1> QED BY <1>1 DEF TypeInv, Noted

LEMMA KeptOn ==
  ASSUME IInv, TypeInv, now' \in Nat, now <= now', Made \subseteq Made'
  PROVE  Kept \subseteq Kept' /\ Nothing \in Kept'
<1>1. 0..now \subseteq 0..now' /\ 0 \in 0..now'
  BY Bounds
<1> QED BY <1>1 DEF Kept, Nothing, NoSession

LEMMA RoomOn ==
  ASSUME IInv, TypeInv, now' \in Nat, now <= now', Made \subseteq Made',
         kept' = [p \in Devices |-> kept'[p]],
         \A p \in Devices : kept'[p] \in {kept[p], Nothing}
  PROVE  Roomy'
<1>1. kept' \in [Devices -> Kept']
  <2>1. \A p \in Devices : kept[p] \in Kept
    BY DEF TypeInv, Roomy
  <2> QED BY <2>1, KeptOn
<1>2. Holding' \in SUBSET Holding
  BY DEF Holding
<1>3. IsFiniteSet(Holding') /\ Cardinality(Holding') <= Cardinality(Holding)
  BY <1>2, FS_Subset DEF TypeInv, Roomy
<1>4. Cardinality(Holding') \in Nat /\ Cardinality(Holding) \in Nat
  BY <1>3, FS_CardinalityType DEF TypeInv, Roomy
<1> QED BY <1>1, <1>3, <1>4, Bounds DEF TypeInv, Roomy

\* Engine::keep: a new device takes the room of the stalest when there is none.
LEMMA KeepsTyped ==
  ASSUME IInv, TypeInv, now' = now, Made \subseteq Made',
         NEW p \in Devices, NEW s \in {Elsewhere} \cup Made', s # NoSession,
         NEW a \in Accounts \cup {NoAccount}, Keeps(p, s, a)
  PROVE  Roomy'
<1> DEFINE new == [session |-> s, account |-> a, at |-> now]
<1>1. new \in Kept' /\ new # Nothing /\ Nothing \in Kept' /\ Kept \subseteq Kept'
  <2>1. now \in 0..now' /\ now' \in Nat /\ now <= now'
    BY Bounds
  <2> QED BY <2>1, KeptOn DEF Kept, Nothing
<1>2. Cardinality(Holding) \in Nat /\ IsFiniteSet(Holding) /\ Cardinality(Holding) <= Capacity
  BY FS_CardinalityType DEF TypeInv, Roomy
<1>3. CASE Cardinality(Holding) >= Capacity /\ p \notin Holding
  <2>1. PICK q \in Holding : kept' = [kept EXCEPT ![q] = Nothing, ![p] = new]
    BY <1>3 DEF Keeps
  <2> HIDE DEF new
  <2>2. q \in Devices /\ q # p
    BY <1>3, <2>1 DEF Holding
  <2>3. kept' \in [Devices -> Kept']
    BY <1>1, <2>1 DEF TypeInv, Roomy
  <2>4. Holding' = (Holding \ {q}) \cup {p}
    BY <1>1, <2>1, <2>2 DEF TypeInv, Roomy, Holding
  <2>5. IsFiniteSet(Holding \ {q}) /\ Cardinality(Holding \ {q}) = Cardinality(Holding) - 1
    BY <1>2, <2>1, FS_RemoveElement
  <2>6. p \notin Holding \ {q}
    BY <1>3
  <2>7. IsFiniteSet(Holding') /\ Cardinality(Holding') = Cardinality(Holding \ {q}) + 1
    BY <2>4, <2>5, <2>6, FS_AddElement
  <2> QED BY <1>2, <2>3, <2>5, <2>7, Bounds DEF Roomy
<1>4. CASE ~(Cardinality(Holding) >= Capacity /\ p \notin Holding)
  <2>1. kept' = [kept EXCEPT ![p] = new]
    BY <1>4 DEF Keeps
  <2> HIDE DEF new
  <2>2. kept' \in [Devices -> Kept']
    BY <1>1, <2>1 DEF TypeInv, Roomy
  <2>3. Holding' = Holding \cup {p}
    BY <1>1, <2>1 DEF TypeInv, Roomy, Holding
  <2>4. /\ IsFiniteSet(Holding')
        /\ Cardinality(Holding') = IF p \in Holding THEN Cardinality(Holding) ELSE Cardinality(Holding) + 1
    BY <1>2, <2>3, FS_AddElement
  <2> QED BY <1>2, <1>4, <2>2, <2>4, Bounds DEF Roomy
<1> QED BY <1>3, <1>4

\* A sign-in makes a session at most, and only while there may be more.
LEMMA SignedInTyped ==
  ASSUME IInv, TypeInv, NEW a \in Accounts, NEW byServer \in BOOLEAN, NEW s \in Sessions,
         SignedIn(a, byServer, s)
  PROVE  Made \subseteq Made' /\ s \in Made' /\ Len(owner') <= MaxSessions
<1>1. Made \subseteq Made' /\ s \in Made'
  BY SignedInGives DEF IInv, Types
<1>2. Len(owner') <= MaxSessions
  <2>1. CASE UNCHANGED owner
    BY <2>1 DEF TypeInv, Clocked
  <2>2. CASE Len(owner) < MaxSessions /\ owner' = Append(owner, a)
    <3>1. Len(owner') = Len(owner) + 1
      BY <2>2 DEF IInv, Types
    <3> QED BY <2>2, <3>1, Bounds
  <2> QED BY <2>1, <2>2 DEF SignedIn, Vtop
<1> QED BY <1>1, <1>2

LEMMA SignsInTyped ==
  ASSUME IInv, TypeInv, NEW p \in Phones, SignsIn(p)
  PROVE  Made \subseteq Made' /\ Len(owner') <= MaxSessions
<1>1. PICK s \in Sessions, byServer \in BOOLEAN : SignedIn(user[p], byServer, s)
  BY DEF SignsIn
<1>2. user[p] \in Accounts
  BY DEF IInv, Types
<1> QED BY <1>1, <1>2, SignedInTyped

\* Steps that leave the gateway's entries and the phone's notes alone.
LEMMA AloneTyped ==
  ASSUME IInv, TypeInv, UNCHANGED <<sent, kept>>, Made \subseteq Made', Len(owner') <= MaxSessions,
         spent' \in 0..Budget, now' \in 0..spent', now <= now',
         dead' \subseteq Made', wants' \subseteq Phones, misled' \subseteq Phones
  PROVE  TypeInv'
<1>1. now' \in Nat
  BY Bounds
<1>2. kept' = [p \in Devices |-> kept'[p]] /\ \A p \in Devices : kept'[p] \in {kept[p], Nothing}
  BY DEF IInv, Types
<1>3. Noted' /\ Roomy'
  BY <1>1, <1>2, NotedOn, RoomOn
<1> QED BY <1>3 DEF TypeInv, Clocked

LEMMA FetchAlone ==
  ASSUME IInv, TypeInv, UNCHANGED <<spent, now, dead, wants, misled, owner, sent, kept>>
  PROVE  TypeInv'
<1>1. Made' = Made /\ Len(owner') <= MaxSessions /\ now <= now' /\ now' \in 0..spent'
      /\ spent' \in 0..Budget /\ dead' \subseteq Made'
  BY Bounds DEF Made, TypeInv, Clocked
<1> QED BY <1>1, AloneTyped DEF TypeInv, Clocked

LEMMA HearTyped ==
  ASSUME IInv, TypeInv, NEW f \in Fetches, Hear(f)
  PROVE  TypeInv'
<1>1. UNCHANGED <<spent, now, dead, wants, misled, owner, kept>> /\ Made' = Made
  BY DEF Hear, World, Vtop, Made
<1>2. CASE UNCHANGED sent
  BY <1>1, <1>2, FetchAlone
<1>3. CASE Notes(f) /\ ~UNCHANGED sent
  <2>1. fetch[f] \in FetchType /\ fetch[f].of \in Phones
        /\ fetch[f].named \in Made /\ fetch[f].renewed \in {NoSession} \cup Made
    <3>1. Running(f)
      BY DEF Hear, At, Running
    <3> QED BY <3>1, Runs DEF FetchType
  <2>2. PICK s \in Made : sent' = [sent EXCEPT ![fetch[f].of] = [session |-> s, at |-> now]]
    BY <1>3, <2>1 DEF Notes
  <2>3. now \in 0..now
    BY Bounds
  <2>4. Noted'
    BY <1>1, <2>1, <2>2, <2>3 DEF TypeInv, Noted
  <2> QED BY <1>1, <2>4 DEF TypeInv, Clocked, Roomy, Holding, Kept
<1> QED BY <1>2, <1>3 DEF Hear

LEMMA PhoneTyped ==
  ASSUME IInv, TypeInv
  PROVE  /\ \A f \in Fetches : Ask(f) \/ Adopt(f) \/ Relogin(f) \/ GiveUp(f) \/ Lost(f) \/ Busy(f) \/ Fetch(f)
              => TypeInv'
         /\ \A p \in Phones : SignIn(p) \/ Allow(p) \/ (\E f \in Fetches : Start(f, p)) => TypeInv'
<1>1. ASSUME NEW f \in Fetches, Ask(f) \/ Adopt(f) \/ GiveUp(f) \/ Lost(f) \/ Fetch(f) PROVE TypeInv'
  BY <1>1, FetchAlone DEF Ask, Adopt, GiveUp, Lost, Fetch, World, Vtop
<1>2. ASSUME NEW f \in Fetches, NEW p \in Phones, Start(f, p) PROVE TypeInv'
  BY <1>2, FetchAlone DEF Start, World, Vtop
<1>3. ASSUME NEW p \in Phones, SignsIn(p), UNCHANGED <<World, sent, kept>> PROVE TypeInv'
  <2>1. Made \subseteq Made' /\ Len(owner') <= MaxSessions
    BY <1>3, SignsInTyped
  <2>2. now <= now' /\ now' \in 0..spent' /\ spent' \in 0..Budget
        /\ dead' \subseteq Made' /\ wants' \subseteq Phones /\ misled' \subseteq Phones
    BY <1>3, <2>1, Bounds DEF World, TypeInv, Clocked
  <2> QED BY <1>3, <2>1, <2>2, AloneTyped
<1>4. ASSUME NEW f \in Fetches, Relogin(f) PROVE TypeInv'
  <2>1. fetch[f].of \in Phones
    BY <1>4 DEF Relogin, At, IInv, FetchShaped, Shaped, Idle, FetchType, AtGateway
  <2>2. CASE SignsIn(fetch[f].of)
    BY <1>3, <1>4, <2>1, <2>2 DEF Relogin
  <2>3. CASE UNCHANGED Vtop
    BY <1>4, <2>3, FetchAlone DEF Relogin, World, Vtop
  <2> QED BY <1>4, <2>2, <2>3 DEF Relogin
<1>5. ASSUME NEW f \in Fetches, Busy(f) PROVE TypeInv'
  <2>1. UNCHANGED <<spent, now, dead, wants, owner, sent, kept>> /\ misled' \subseteq misled \cup {fetch[f].of}
    BY <1>5 DEF Busy, Vtop
  <2>2. fetch[f].of \in Phones
    <3>1. Running(f)
      BY <1>5 DEF Busy, At, Running
    <3> QED BY <3>1, Runs
  <2>3. Made' = Made /\ Len(owner') <= MaxSessions /\ now <= now' /\ now' \in 0..spent'
        /\ spent' \in 0..Budget /\ dead' \subseteq Made' /\ wants' \subseteq Phones
        /\ misled' \subseteq Phones
    BY <2>1, <2>2, Bounds DEF Made, TypeInv, Clocked
  <2> QED BY <2>1, <2>3, AloneTyped
<1>6. ASSUME NEW p \in Phones, Allow(p) PROVE TypeInv'
  <2>1. UNCHANGED <<now, dead, misled, owner, sent, kept>> /\ wants' \subseteq wants \cup {p}
        /\ Happens(EventCosts)
    BY <1>6 DEF Allow, Vtop
  <2>2. spent' \in 0..Budget /\ now' \in 0..spent'
    BY <2>1, Bounds, HoursAssumption DEF Happens, TypeInv, Clocked
  <2>3. Made' = Made /\ Len(owner') <= MaxSessions /\ now <= now' /\ dead' \subseteq Made'
        /\ wants' \subseteq Phones /\ misled' \subseteq Phones
    BY <2>1, Bounds DEF Made, TypeInv, Clocked
  <2> QED BY <2>1, <2>2, <2>3, AloneTyped
<1> QED BY <1>1, <1>2, <1>3, <1>4, <1>5, <1>6 DEF SignIn

\* The gateway's steps keep what the fetch names or what was made for it.
LEMMA GatewayTyped ==
  ASSUME IInv, TypeInv, NEW f \in Fetches, Serve(f) \/ Renew(f)
  PROVE  TypeInv'
<1>1. UNCHANGED <<spent, now, dead, wants, misled, sent>> /\ now' \in Nat /\ now <= now'
  <2>1. UNCHANGED <<spent, now, dead, wants, misled, sent>>
    BY DEF Serve, Renew, World
  <2> QED BY <2>1, Bounds
<1>2. /\ fetch[f] \in FetchType /\ fetch[f].of \in Devices
      /\ fetch[f].named \in Made /\ fetch[f].named # NoSession
      /\ fetch[f].account \in Accounts \cup {NoAccount}
      /\ fetch[f].pc = "sign_in" => fetch[f].account # NoAccount
  <2>1. Running(f) /\ fetch[f].pc \in {"asked", "sign_in"}
    BY DEF Serve, Renew, At, Running
  <2>2. fetch[f] \in FetchType /\ fetch[f].of \in Phones /\ fetch[f].named # NoSession
    BY <2>1, Runs
  <2>3. fetch[f].pc = "sign_in" => fetch[f].account # NoAccount
    BY <2>1 DEF IInv, FetchShaped, Shaped, Idle
  <2> QED BY <2>2, <2>3 DEF FetchType, Devices
<1>3. ASSUME Made \subseteq Made', Len(owner') <= MaxSessions, Roomy' PROVE TypeInv'
  <2>1. Noted'
    BY <1>1, <1>3, NotedOn
  <2> QED BY <1>1, <1>3, <2>1 DEF TypeInv, Clocked
<1>4. ASSUME UNCHANGED <<owner, kept>> PROVE TypeInv'
  BY <1>1, <1>4, FetchAlone
<1>5. CASE Serve(f)
  <2>1. UNCHANGED owner /\ Made' = Made /\ Len(owner') <= MaxSessions
    BY <1>5 DEF Serve, Vtop, Made, TypeInv, Clocked
  <2>2. CASE Keeps(fetch[f].of, fetch[f].named, fetch[f].account)
    <3>1. Roomy'
      BY <1>1, <1>2, <2>1, <2>2, KeepsTyped
    <3> QED BY <1>3, <2>1, <3>1
  <2>3. CASE Holds(fetch[f].of, fetch[f].named) /\ kept' = [kept EXCEPT ![fetch[f].of].at = now]
    <3> DEFINE p == fetch[f].of
    <3>1. kept[p] \in Kept /\ kept[p].session # NoSession /\ kept' = [kept EXCEPT ![p] = kept'[p]]
          /\ kept'[p] = [kept[p] EXCEPT !.at = now]
      BY <1>2, <2>3 DEF Holds, TypeInv, Roomy
    <3>2. kept'[p] \in Kept /\ kept'[p].session # NoSession
      <4>1. now \in 0..now
        BY <1>1
      <4> QED BY <3>1, <4>1 DEF Kept
    <3>3. Kept' = Kept
      BY <1>1, <2>1 DEF Kept
    <3>4. kept'[p] # Nothing /\ kept[p] # Nothing
      BY <3>1, <3>2 DEF Nothing
    <3> HIDE DEF p
    <3>5. Holding' = Holding /\ kept' \in [Devices -> Kept']
      BY <3>1, <3>2, <3>3, <3>4 DEF TypeInv, Roomy, Holding
    <3>6. Roomy'
      BY <3>5 DEF TypeInv, Roomy
    <3> QED BY <1>3, <2>1, <3>6
  <2>4. CASE UNCHANGED kept
    BY <1>4, <2>1, <2>4
  <2> QED BY <1>5, <2>2, <2>3, <2>4 DEF Serve
<1>6. CASE Renew(f)
  <2>1. CASE UNCHANGED <<Vtop, kept>>
    BY <1>4, <2>1 DEF Vtop
  <2>2. CASE ~UNCHANGED <<Vtop, kept>>
    <3>1. PICK s \in Sessions :
            /\ \E byServer \in BOOLEAN : SignedIn(fetch[f].account, byServer, s)
            /\ Keeps(fetch[f].of, s, fetch[f].account)
      BY <1>6, <2>2 DEF Renew
    <3>2. fetch[f].account \in Accounts
      BY <1>2, <1>6 DEF Renew, At
    <3>3. Made \subseteq Made' /\ s \in Made' /\ Len(owner') <= MaxSessions /\ s # NoSession
      <4>1. s # NoSession
        BY DEF Sessions, NoSession
      <4> QED BY <3>1, <3>2, <4>1, SignedInTyped
    <3>4. Roomy'
      BY <1>1, <1>2, <3>1, <3>3, KeepsTyped
    <3> QED BY <1>3, <3>3, <3>4
  <2> QED BY <2>1, <2>2
<1> QED BY <1>5, <1>6

LEMMA AroundTyped ==
  ASSUME IInv, TypeInv,
         \/ \E p \in Phones, a \in Accounts : Switch(p, a)
         \/ \E s \in Made : Drop(s)
         \/ \E q \in Others : OtherSends(q)
         \/ Sweep \/ Restart \/ Hour
  PROVE  TypeInv'
<1>1. UNCHANGED <<owner, sent, wants, misled>> /\ Made' = Made
  BY DEF Switch, Drop, OtherSends, Sweep, Restart, Hour, World, Vtop, Made
<1>2. spent' \in 0..Budget /\ now' \in 0..spent' /\ now' \in Nat /\ now <= now'
  <2>1. \/ UNCHANGED <<spent, now>>
        \/ Happens(EventCosts) /\ UNCHANGED now
        \/ Happens(HourCosts) /\ now' = now + 1
    BY DEF Switch, Drop, OtherSends, Sweep, Restart, Hour, World
  <2> QED BY <2>1, Bounds, HoursAssumption DEF Happens, TypeInv, Clocked
<1>3. dead' \subseteq Made
  BY DEF Switch, Drop, OtherSends, Sweep, Restart, Hour, World, TypeInv, Clocked
<1>4. Roomy'
  <2>1. CASE \E q \in Others : OtherSends(q)
    <3>1. PICK q \in Others : Keeps(q, Elsewhere, NoAccount) /\ now' = now
      BY <2>1 DEF OtherSends
    <3>2. Elsewhere # NoSession /\ q \in Devices
      BY Bounds DEF Elsewhere, NoSession, Devices
    <3> QED BY <1>1, <3>1, <3>2, KeepsTyped
  <2>2. CASE ~\E q \in Others : OtherSends(q)
    <3>1. kept' = [p \in Devices |-> kept'[p]] /\ \A p \in Devices : kept'[p] \in {kept[p], Nothing}
      <4>1. kept = [p \in Devices |-> kept[p]]
        BY DEF TypeInv, Roomy
      <4>2. \/ kept' = kept
            \/ kept' = [p \in Devices |-> Nothing]
            \/ kept' = [p \in Devices |-> IF now - kept[p].at < Keep THEN kept[p] ELSE Nothing]
        BY <2>2 DEF Switch, Drop, Sweep, Restart, Hour
      <4> QED BY <4>1, <4>2
    <3> QED BY <1>1, <1>2, <3>1, RoomOn
  <2> QED BY <2>1, <2>2
<1>5. Noted'
  BY <1>1, <1>2, NotedOn
<1> QED BY <1>1, <1>2, <1>3, <1>4, <1>5 DEF TypeInv, Clocked

\* Sessions, notes and entries are of what was made and of hours that were, and
\* Engine::keep never lets the gateway hold sessions of more than Capacity
\* devices, however requests, renewals, sweeps and restarts interleave.
THEOREM SessionsTyped == Spec => []TypeOK
<1>1. Init => TypeInv
  <2> SUFFICES ASSUME Init PROVE TypeInv
    OBVIOUS
  <2>1. Clocked /\ Noted
    BY LimitsAssumption DEF Init, Clocked, Noted, Made
  <2>2. Holding = {} /\ IsFiniteSet({}) /\ Cardinality({}) = 0
    BY FS_EmptySet DEF Init, Holding
  <2>3. kept \in [Devices -> Kept]
    BY DEF Init, Kept, Nothing
  <2> QED BY <2>1, <2>2, <2>3, LimitsAssumption DEF TypeInv, Roomy
<1>2. IInv /\ TypeInv /\ [Next]_vars => TypeInv'
  <2> SUFFICES ASSUME IInv, TypeInv, [Next]_vars PROVE TypeInv'
    OBVIOUS
  <2>1. CASE UNCHANGED vars
    BY <2>1, FetchAlone DEF vars
  <2>2. ASSUME NEW f \in Fetches, AtPhone(f) \/ GiveUp(f) \/ Lost(f) \/ Busy(f) \/ Gateway(f)
        PROVE  TypeInv'
    BY <2>2, HearTyped, PhoneTyped, GatewayTyped DEF AtPhone, Gateway
  <2> QED BY <2>1, <2>2, PhoneTyped, AroundTyped DEF Next
<1>3. IInv /\ TypeInv => TypeOK
  <2> SUFFICES ASSUME IInv, TypeInv PROVE TypeOK
    OBVIOUS
  <2>1. ASSUME NEW f \in Fetches
        PROVE  \/ fetch[f] = Idle
               \/ fetch[f] \in [pc: {"expired"}, of: Phones]
               \/ fetch[f] \in Fetching
    <3>1. Made \subseteq Sessions
      BY Bounds
    <3>2. FetchType \subseteq Fetching
      BY <3>1 DEF FetchType, Fetching
    <3> QED BY <3>2 DEF IInv, FetchShaped, Shaped
  <2> QED BY <2>1 DEF TypeOK, TypeInv, Clocked, Noted, Roomy, IInv, Types, EdgeOwn
<1>4. IInv /\ [Next]_vars => IInv'
  BY NextKeeps
<1> QED BY <1>1, <1>2, <1>3, <1>4, InitKeeps, PTL DEF Spec
=============================================================================

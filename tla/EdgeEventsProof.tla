-------------------------- MODULE EdgeEventsProof ---------------------------
(***************************************************************************)
(* The cursor of EdgeEvents passes no event that was not delivered, for    *)
(* any log, page and number of streams, and each event is handed to its    *)
(* handler at most once.                                                   *)
(*                                                                         *)
(* The argument is about what a stream still owes: its queue is ascending  *)
(* (Ordered), and every event of the log is behind the cursor, pruned, cut *)
(* or in the queue of each open stream (Covered).  So what lies between    *)
(* the cursor and the first of a queue is pruned or cut.  A second stream  *)
(* only makes the cursor greater, and a stream that opens starts from a    *)
(* cursor that was sent before (Sent).  A number that was handed out stays *)
(* on the list, and whoever has yet to write the list read it there.       *)
(***************************************************************************)
EXTENDS EdgeEvents, Integers, TLAPS

Types ==
  /\ seq \in 0..MaxEvents /\ first \in Nat /\ cursor \in 0..seq
  /\ lane \in [Lanes -> Lane]

Ascends(q, top) ==
  /\ \A i \in 1..Len(q) : q[i] <= top
  /\ \A i, j \in 1..Len(q) : i < j => q[i] < q[j]

Ordered(l) == Ascends(lane[l].queue, seq)

Sent(l) == lane[l].after <= cursor

Queued(l, n) == \E i \in 1..Len(lane[l].queue) : lane[l].queue[i] = n

Covered(l) ==
  lane[l].pc = "open" =>
    \A n \in 1..seq : n <= cursor \/ n < first \/ n \in cut \/ Queued(l, n)

Owes(l) == Ordered(l) /\ Sent(l) /\ Covered(l)

IInv == Types /\ \A l \in Lanes : Owes(l)

\* A lane as it was, one that ended, or a call that sends a cursor.
Kept(l) ==
  \/ lane'[l] = lane[l] \/ lane'[l] = Free
  \/ /\ lane'[l].pc # "open" /\ lane'[l].queue = lane[l].queue
     /\ lane'[l].after \in 0..cursor

LEMMA InSequence ==
  ASSUME NEW q \in Seq(Events)
  PROVE  Len(q) \in Nat /\ \A i \in 1..Len(q) : q[i] \in Nat
<1>1. Len(q) \in Nat /\ \A i \in 1..Len(q) : q[i] \in Events
  OBVIOUS
<1> QED BY <1>1, BoundsAssumption DEF Events

LEMMA AppendAscends ==
  ASSUME NEW q \in Seq(Events), NEW top \in Nat, Ascends(q, top), top + 1 \in Events
  PROVE  Ascends(Append(q, top + 1), top + 1)
<1> DEFINE r == Append(q, top + 1)
<1>1. /\ Len(r) = Len(q) + 1 /\ r[Len(q) + 1] = top + 1
      /\ \A i \in 1..Len(q) : r[i] = q[i]
  OBVIOUS
<1>2. Len(q) \in Nat /\ \A i \in 1..Len(q) : q[i] \in Nat
  BY InSequence
<1> HIDE DEF r
<1>3. \A i \in 1..Len(r) : r[i] <= top + 1
  BY <1>1, <1>2 DEF Ascends
<1>4. ASSUME NEW i \in 1..Len(r), NEW j \in 1..Len(r), i < j PROVE r[i] < r[j]
  <2>1. i \in 1..Len(q) /\ r[i] = q[i] /\ q[i] <= top
    BY <1>1, <1>2, <1>4 DEF Ascends
  <2>2. CASE j = Len(q) + 1
    BY <2>1, <2>2, <1>1, <1>2
  <2>3. CASE j # Len(q) + 1
    <3>1. j \in 1..Len(q) /\ r[j] = q[j]
      BY <2>3, <1>1, <1>2
    <3> QED BY <2>1, <3>1, <1>4 DEF Ascends
  <2> QED BY <2>2, <2>3
<1>5. Ascends(r, top + 1)
  BY <1>3, <1>4 DEF Ascends
<1> QED BY <1>5 DEF r

LEMMA TailAscends ==
  ASSUME NEW q \in Seq(Events), NEW top \in Nat, Ascends(q, top), q # << >>
  PROVE  /\ Tail(q) \in Seq(Events) /\ Ascends(Tail(q), top)
         /\ \A n : (\E i \in 1..Len(q) : q[i] = n)
                  => n = Head(q) \/ \E i \in 1..Len(Tail(q)) : Tail(q)[i] = n
         /\ Head(q) \in Events /\ Head(q) <= top
         /\ \A i \in 1..Len(q) : Head(q) <= q[i]
<1> DEFINE r == Tail(q)
<1>1. /\ r \in Seq(Events) /\ Len(r) = Len(q) - 1 /\ Len(q) \in Nat \ {0}
      /\ \A i \in 1..Len(r) : r[i] = q[i + 1]
      /\ Head(q) = q[1]
  OBVIOUS
<1>2. \A i \in 1..Len(q) : q[i] \in Nat /\ q[i] \in Events
  BY InSequence
<1> HIDE DEF r
<1>3. Ascends(r, top)
  <2>1. \A i \in 1..Len(r) : i + 1 \in 1..Len(q) /\ r[i] = q[i + 1]
    BY <1>1
  <2>2. \A i \in 1..Len(r) : r[i] <= top
    BY <2>1 DEF Ascends
  <2>3. ASSUME NEW i \in 1..Len(r), NEW j \in 1..Len(r), i < j PROVE r[i] < r[j]
    <3>1. i + 1 \in 1..Len(q) /\ j + 1 \in 1..Len(q) /\ i + 1 < j + 1
      BY <2>1, <2>3
    <3> QED BY <2>1, <3>1 DEF Ascends
  <2> QED BY <2>2, <2>3 DEF Ascends
<1>4. ASSUME NEW i \in 1..Len(q) PROVE q[i] = Head(q) \/ \E k \in 1..Len(r) : r[k] = q[i]
  <2>1. CASE i = 1
    BY <2>1, <1>1
  <2>2. CASE i # 1
    <3>1. i - 1 \in 1..Len(r) /\ r[i - 1] = q[i]
      BY <2>2, <1>1
    <3> QED BY <3>1
  <2> QED BY <2>1, <2>2
<1>5. Head(q) \in Events /\ Head(q) <= top /\ \A i \in 1..Len(q) : Head(q) <= q[i]
  <2>1. 1 \in 1..Len(q)
    BY <1>1
  <2> QED BY <2>1, <1>1, <1>2 DEF Ascends
<1> QED BY <1>1, <1>3, <1>4, <1>5 DEF r

LEMMA Between ==
  ASSUME NEW d \in Nat, NEW e \in Nat, NEW m \in d + 1 .. e - 1
  PROVE  m \in Nat /\ d < m /\ m < e
OBVIOUS

LEMMA InitKeeps == Init => IInv
BY BoundsAssumption DEF Init, IInv, Types, Owes, Ordered, Ascends, Sent, Covered, Lane, Free, Events

\* What neither appends, opens nor reads leaves every stream owing what it did.
LEMMA OthersKeep ==
  ASSUME IInv, seq' = seq, cursor' = cursor, first' \in Nat, first <= first',
         cut' = cut, lane' \in [Lanes -> Lane], \A l \in Lanes : Kept(l)
  PROVE  IInv'
<1>1. Types'
  BY DEF IInv, Types
<1>2. ASSUME NEW l \in Lanes PROVE Owes(l)'
  <2>1. lane[l] \in Lane /\ lane'[l] \in Lane /\ Kept(l) /\ Owes(l)
    BY DEF IInv, Types
  <2>2. seq \in Nat /\ cursor \in Nat /\ first \in Nat
    BY BoundsAssumption DEF IInv, Types
  <2>3. CASE lane'[l] = lane[l]
    BY <2>1, <2>2, <2>3 DEF Owes, Ordered, Sent, Covered, Queued
  <2>4. CASE lane'[l] = Free
    BY <2>1, <2>2, <2>4 DEF Owes, Ordered, Ascends, Sent, Covered, Free
  <2>5. CASE /\ lane'[l].pc # "open" /\ lane'[l].queue = lane[l].queue
             /\ lane'[l].after \in 0..cursor
    BY <2>1, <2>2, <2>5 DEF Owes, Ordered, Sent, Covered
  <2> QED BY <2>1, <2>3, <2>4, <2>5 DEF Kept
<1> QED BY <1>1, <1>2 DEF IInv

LEMMA AppendKeeps == IInv /\ AppendEvent => IInv'
<1> SUFFICES ASSUME IInv, AppendEvent PROVE IInv'
  OBVIOUS
<1>0. seq \in Nat /\ cursor \in Nat /\ first \in Nat /\ seq + 1 \in Events
  BY BoundsAssumption DEF IInv, Types, AppendEvent, Events
<1>1. /\ seq' = seq + 1 /\ first' = first /\ cursor' = cursor /\ cut' = cut
      /\ seq' \in 0..MaxEvents
  BY <1>0 DEF AppendEvent, Accepting, Events
<1>2. ASSUME NEW l \in Lanes PROVE lane'[l] \in Lane /\ Owes(l)'
  <2>1. lane[l] \in Lane /\ Owes(l)
    BY DEF IInv, Types
  <2>q. lane[l].queue \in Seq(Events)
    BY <2>1 DEF Lane
  <2>n. Len(lane[l].queue) \in Nat /\ \A i \in 1..Len(lane[l].queue) : lane[l].queue[i] \in Nat
    BY <2>q, InSequence
  <2>2. CASE lane[l].pc = "open"
    <3> DEFINE q == lane[l].queue
    <3>1. lane'[l] = [lane[l] EXCEPT !.queue = Append(q, seq + 1)]
      BY <2>2 DEF AppendEvent
    <3>a. Append(q, seq + 1) \in Seq(Events)
      BY <2>q, <1>0
    <3>2. /\ lane'[l] \in Lane /\ lane'[l].pc = "open" /\ lane'[l].after = lane[l].after
          /\ lane'[l].queue = Append(q, seq + 1)
      BY <3>1, <3>a, <2>1, <2>2 DEF Lane
    <3>3. /\ Len(Append(q, seq + 1)) = Len(q) + 1 /\ Len(q) \in Nat
          /\ \A i \in 1..Len(q) : Append(q, seq + 1)[i] = q[i] /\ q[i] \in Nat
          /\ Append(q, seq + 1)[Len(q) + 1] = seq + 1
      BY <2>q, <2>n, <1>0
    <3>5. Ordered(l)'
      BY <3>2, <1>0, <1>1, <2>1, <2>q, AppendAscends DEF Owes, Ordered
    <3>6. Sent(l)'
      BY <3>2, <2>1, <1>1 DEF Owes, Sent
    <3>7. Covered(l)'
      <4> SUFFICES ASSUME NEW n \in 1..seq + 1
                   PROVE  n <= cursor \/ n < first \/ n \in cut \/ Queued(l, n)'
        BY <1>1 DEF Covered
      <4>1. CASE n = seq + 1
        BY <4>1, <3>2, <3>3 DEF Queued
      <4>2. CASE n # seq + 1
        <5>1. n <= cursor \/ n < first \/ n \in cut \/ Queued(l, n)
          BY <4>2, <2>1, <2>2, <1>0 DEF Owes, Covered
        <5> QED BY <5>1, <3>2, <3>3 DEF Queued
      <4> QED BY <4>1, <4>2
    <3> QED BY <3>2, <3>5, <3>6, <3>7 DEF Owes
  <2>3. CASE lane[l].pc # "open"
    <3>1. lane'[l] = lane[l]
      BY <2>3 DEF AppendEvent
    <3>2. Ordered(l)'
      BY <3>1, <2>n, <2>q, <2>1, <1>0, <1>1 DEF Owes, Ordered, Ascends
    <3> QED BY <3>1, <3>2, <2>1, <2>3, <1>1 DEF Owes, Sent, Covered
  <2> QED BY <2>2, <2>3
<1>3. lane' = [l \in Lanes |-> lane'[l]]
  BY DEF AppendEvent
<1>4. Types'
  <2>1. lane' \in [Lanes -> Lane]
    BY <1>2, <1>3
  <2> QED BY <2>1, <1>0, <1>1 DEF IInv, Types
<1> QED BY <1>2, <1>4 DEF IInv
\* A frame moves the cursor to the least of what its stream owes.
LEMMA FrameKeeps == ASSUME NEW k \in Lanes, IInv, Frame(k) PROVE IInv' /\ SkipsNone
<1> DEFINE q == lane[k].queue
           n == Head(q)
<1>0. seq \in Nat /\ cursor \in 0..seq /\ first \in Nat /\ lane \in [Lanes -> Lane]
  BY BoundsAssumption DEF IInv, Types
<1>1. /\ lane[k].pc = "open" /\ q # << >>
      /\ lane' = [lane EXCEPT ![k].queue = Tail(q)]
      /\ cursor' = Greater(cursor, n)
      /\ seq' = seq /\ first' = first /\ cut' = cut
  BY DEF Frame, Begin, Edge
<1>2. q \in Seq(Events) /\ Owes(k)
  BY <1>0 DEF IInv, Lane
<1>3. /\ Tail(q) \in Seq(Events) /\ Ascends(Tail(q), seq)
      /\ \A m : (\E i \in 1..Len(q) : q[i] = m)
               => m = n \/ \E i \in 1..Len(Tail(q)) : Tail(q)[i] = m
      /\ n \in Events /\ n <= seq
      /\ \A i \in 1..Len(q) : n <= q[i]
  BY <1>0, <1>1, <1>2, TailAscends DEF Owes, Ordered
<1>4. n \in Nat
  BY <1>3, BoundsAssumption DEF Events
<1> HIDE DEF n
<1>5. cursor' \in 0..seq /\ cursor <= cursor' /\ n <= cursor'
      /\ (cursor' = cursor \/ cursor' = n)
  BY <1>0, <1>1, <1>3, <1>4 DEF Greater
<1>6. SkipsNone
  <2> SUFFICES ASSUME NEW m \in cursor + 1 .. cursor' - 1 PROVE m < first \/ m \in cut
    BY DEF SkipsNone
  <2>a. cursor \in Nat /\ cursor' \in Nat /\ cursor' <= seq /\ seq \in Nat
    BY <1>0, <1>5
  <2>b. m \in Nat /\ cursor < m /\ m < cursor'
    BY <2>a, Between
  <2>c. cursor' = n
    BY <2>a, <2>b, <1>5
  <2>1. m \in 1..seq /\ ~(m <= cursor) /\ m < n
    BY <2>a, <2>b, <2>c
  <2>2. ~Queued(k, m)
    <3>1. \A i \in 1..Len(q) : q[i] \in Nat
      BY <1>2, InSequence
    <3> QED BY <2>1, <3>1, <1>3, <1>4 DEF Queued
  <2> QED BY <2>1, <2>2, <1>1, <1>2 DEF Owes, Covered
<1>7. /\ lane'[k].pc = "open" /\ lane'[k].after = lane[k].after
      /\ lane'[k].queue = Tail(q) /\ lane'[k] \in Lane
      /\ \A l \in Lanes \ {k} : lane'[l] = lane[l]
      /\ lane' \in [Lanes -> Lane]
  <2>1. lane[k] \in Lane /\ lane'[k] = [lane[k] EXCEPT !.queue = Tail(q)]
    BY <1>0, <1>1
  <2>2. lane'[k] \in Lane /\ lane'[k].after = lane[k].after /\ lane'[k].pc = "open"
        /\ lane'[k].queue = Tail(q)
    BY <2>1, <1>1, <1>3 DEF Lane
  <2> QED BY <2>2, <1>0, <1>1
<1>8. Types'
  BY <1>0, <1>1, <1>5, <1>7 DEF IInv, Types
<1>9. ASSUME NEW l \in Lanes PROVE Owes(l)'
  <2>0. Owes(l) /\ lane[l].after \in Nat
    BY <1>0, BoundsAssumption DEF IInv, Lane
  <2>1. Sent(l)'
    BY <2>0, <1>0, <1>5, <1>7 DEF Owes, Sent
  <2>2. CASE l = k
    <3>1. Ordered(l)'
      BY <2>2, <1>1, <1>3, <1>7 DEF Ordered
    <3>2. Covered(l)'
      <4> SUFFICES ASSUME NEW m \in 1..seq
                   PROVE  m <= cursor' \/ m < first \/ m \in cut \/ Queued(k, m)'
        BY <2>2, <1>1 DEF Covered
      <4>1. m <= cursor \/ m < first \/ m \in cut \/ Queued(k, m)
        BY <1>1, <1>2 DEF Owes, Covered
      <4>2. CASE Queued(k, m)
        <5>1. m = n \/ \E i \in 1..Len(Tail(q)) : Tail(q)[i] = m
          BY <4>2, <1>3 DEF Queued
        <5> QED BY <5>1, <1>4, <1>5, <1>7 DEF Queued
      <4> QED BY <4>1, <4>2, <1>0, <1>5
    <3> QED BY <2>1, <3>1, <3>2 DEF Owes
  <2>3. CASE l # k
    <3>1. Ordered(l)'
      BY <2>0, <2>3, <1>1, <1>7 DEF Owes, Ordered, Ascends
    <3>2. Covered(l)'
      BY <2>0, <2>3, <1>0, <1>1, <1>5, <1>7 DEF Owes, Covered, Queued
    <3> QED BY <2>1, <3>1, <3>2 DEF Owes
  <2> QED BY <2>2, <2>3
<1> QED BY <1>6, <1>8, <1>9 DEF IInv

\* A stream that opens owes the page after the cursor that was sent for it;
\* what does not fit is cut.
LEMMA OpenedKeeps == ASSUME NEW k \in Lanes, IInv, Opened(k) PROVE IInv'
<1> DEFINE oldest == Greater(lane[k].after + 1, first)
           newest == Lesser(seq, oldest + Page - 1)
           page == Numbers(oldest, newest)
<1>0. /\ seq \in Nat /\ cursor \in 0..seq /\ first \in Nat /\ lane \in [Lanes -> Lane]
      /\ Page \in Nat \ {0} /\ seq \in 0..MaxEvents /\ MaxEvents \in Nat
  BY BoundsAssumption DEF IInv, Types
<1>1. seq' = seq /\ first' = first /\ cursor' = cursor /\ lane[k].pc = "opening"
  BY DEF Opened, Edge, Accepting
<1>2. lane[k].after \in Nat /\ lane[k].after <= cursor
  BY <1>0 DEF IInv, Owes, Sent, Lane
<1>3. CASE ~front
  <2>1. lane' = [lane EXCEPT ![k] = Free] /\ cut' = cut
    BY <1>3 DEF Opened
  <2>2. lane' \in [Lanes -> Lane] /\ \A l \in Lanes : Kept(l)
    BY <2>1, <1>0 DEF Kept, Free, Lane
  <2> QED BY <2>1, <2>2, <1>0, <1>1, OthersKeep
<1>4. CASE front
  <2>1. /\ lane' = [lane EXCEPT ![k] = [pc |-> "open", after |-> 0, queue |-> page]]
        /\ cut' = cut \cup (newest + 1 .. seq)
    BY <1>4 DEF Opened
  <2>2. /\ oldest \in Nat \ {0} /\ newest \in Int /\ newest <= seq
        /\ \A n \in 1..seq : n <= cursor \/ n < first \/ oldest <= n
    BY <1>0, <1>2 DEF Greater, Lesser
  <2> HIDE DEF oldest, newest
  <2> DEFINE size == IF oldest <= newest THEN newest - oldest + 1 ELSE 0
  <2>3. /\ page = [i \in 1..size |-> oldest + i - 1] /\ size \in Nat
        /\ \A i \in 1..size : oldest + i - 1 \in 1..seq
    BY <2>2, <1>0 DEF Numbers
  <2>s. \A n \in oldest..newest : n - oldest + 1 \in 1..size /\ oldest + (n - oldest + 1) - 1 = n
    BY <2>2
  <2> HIDE DEF page, size
  <2>4. page \in Seq(Events) /\ Len(page) = size
    BY <2>3, <1>0 DEF Events
  <2>5. Ascends(page, seq)
    BY <2>2, <2>3, <2>4, <1>0 DEF Ascends
  <2>6. \A n \in oldest..newest : \E i \in 1..Len(page) : page[i] = n
    BY <2>s, <2>3, <2>4
  <2>7. /\ lane' \in [Lanes -> Lane] /\ \A l \in Lanes \ {k} : lane'[l] = lane[l]
        /\ lane'[k].pc = "open" /\ lane'[k].after = 0 /\ lane'[k].queue = page
    BY <2>1, <2>4, <1>0 DEF Lane
  <2>8. Types'
    BY <2>7, <1>0, <1>1 DEF Types
  <2>9. ASSUME NEW l \in Lanes PROVE Owes(l)'
    <3>1. CASE l = k
      <4>1. Ordered(l)' /\ Sent(l)'
        BY <3>1, <2>5, <2>7, <1>0, <1>1 DEF Ordered, Sent
      <4>2. Covered(l)'
        <5> SUFFICES ASSUME NEW n \in 1..seq
                     PROVE  n <= cursor \/ n < first \/ n \in cut' \/ Queued(k, n)'
          BY <3>1, <1>1 DEF Covered
        <5>1. CASE n \in oldest..newest
          BY <5>1, <2>6, <2>7 DEF Queued
        <5>2. CASE n \notin oldest..newest
          BY <5>2, <2>1, <2>2, <1>0
        <5> QED BY <5>1, <5>2
      <4> QED BY <4>1, <4>2 DEF Owes
    <3>2. CASE l # k
      <4>1. Owes(l) /\ lane'[l] = lane[l]
        BY <3>2, <2>7 DEF IInv
      <4>2. Ordered(l)' /\ Sent(l)'
        BY <4>1, <1>1 DEF Owes, Ordered, Ascends, Sent
      <4>3. Covered(l)'
        BY <4>1, <2>1, <1>1 DEF Owes, Covered, Queued
      <4> QED BY <4>2, <4>3 DEF Owes
    <3> QED BY <3>1, <3>2
  <2> QED BY <2>8, <2>9 DEF IInv
<1> QED BY <1>3, <1>4

\* connect() takes a free lane, or none.
LEMMA ConnectKeeps ==
  ASSUME IInv, Connect
  PROVE  lane' \in [Lanes -> Lane] /\ \A l \in Lanes : Kept(l)
<1>0. lane \in [Lanes -> Lane] /\ cursor \in Nat /\ \A l \in Lanes : lane[l].after \in Nat
  BY BoundsAssumption DEF IInv, Types, Lane
<1>1. CASE UNCHANGED lane
  BY <1>0, <1>1 DEF Kept
<1>2. CASE \E l \in Lanes : lane' = [lane EXCEPT ![l].pc = "checking"]
  <2>1. PICK l \in Lanes : lane' = [lane EXCEPT ![l].pc = "checking"]
    BY <1>2
  <2>2. lane'[l] = [lane[l] EXCEPT !.pc = "checking"] /\ lane[l] \in Lane
    BY <2>1, <1>0
  <2>3. /\ lane'[l] \in Lane /\ lane'[l].pc = "checking"
        /\ lane'[l].queue = lane[l].queue /\ lane'[l].after = lane[l].after
    BY <2>2 DEF Lane
  <2>4. lane[l].after \in 0..cursor
    BY <1>0 DEF IInv, Owes, Sent
  <2> QED BY <2>1, <2>3, <2>4, <1>0 DEF Kept
<1> QED BY <1>1, <1>2 DEF Connect

LEMMA CloseKeeps ==
  ASSUME IInv, NEW gone, Close(gone)
  PROVE  lane' \in [Lanes -> Lane] /\ \A l \in Lanes : Kept(l)
<1>1. lane \in [Lanes -> Lane] /\ Free \in Lane
  BY BoundsAssumption DEF IInv, Types, Lane, Free
<1> QED BY <1>1 DEF Close, Kept

LEMMA WantedKeeps == ASSUME NEW k \in Lanes, IInv, Wanted(k) PROVE IInv'
<1>0. /\ lane \in [Lanes -> Lane] /\ cursor \in 0..MaxEvents /\ first \in Nat /\ Free \in Lane
  BY BoundsAssumption DEF IInv, Types, Lane, Free
<1>1. seq' = seq /\ first' = first /\ cursor' = cursor /\ cut' = cut
  BY DEF Wanted, Edge, Accepting
<1>2. CASE lane' = [lane EXCEPT ![k] = Free]
  <2>1. lane' \in [Lanes -> Lane] /\ \A l \in Lanes : Kept(l)
    BY <1>0, <1>2 DEF Kept
  <2> QED BY <2>1, <1>0, <1>1, OthersKeep
<1>3. CASE lane' = [lane EXCEPT ![k].pc = "opening", ![k].after = cursor]
  <2>1. lane'[k] = [lane[k] EXCEPT !.pc = "opening", !.after = cursor] /\ lane[k] \in Lane
    BY <1>0, <1>3
  <2>2. /\ lane'[k] \in Lane /\ lane'[k].pc = "opening"
        /\ lane'[k].queue = lane[k].queue /\ lane'[k].after = cursor
    BY <2>1, <1>0 DEF Lane
  <2>3. lane' \in [Lanes -> Lane] /\ \A l \in Lanes : Kept(l)
    BY <2>2, <1>0, <1>3 DEF Kept
  <2> QED BY <2>3, <1>0, <1>1, OthersKeep
<1> QED BY <1>2, <1>3 DEF Wanted

\* What leaves log, cursor and cut alone.
Rests == seq' = seq /\ first' = first /\ cursor' = cursor /\ cut' = cut

LEMMA RestKeeps == IInv /\ Rests /\ UNCHANGED lane => IInv'
<1> SUFFICES ASSUME IInv, Rests, UNCHANGED lane PROVE IInv'
  OBVIOUS
<1>1. first \in Nat /\ lane' \in [Lanes -> Lane] /\ \A l \in Lanes : Kept(l)
  BY DEF IInv, Types, Kept
<1> QED BY <1>1, OthersKeep DEF Rests

LEMMA FreedKeeps ==
  ASSUME IInv, Rests, lane' \in [Lanes -> Lane], \A l \in Lanes : Kept(l)
  PROVE  IInv'
<1>1. first \in Nat
  BY DEF IInv, Types
<1> QED BY <1>1, OthersKeep DEF Rests

LEMMA NextKeeps == IInv /\ [Next]_vars => IInv' /\ [SkipsNone]_cursor
<1> SUFFICES ASSUME IInv, [Next]_vars PROVE IInv' /\ [SkipsNone]_cursor
  OBVIOUS
<1>0. lane \in [Lanes -> Lane] /\ Free \in Lane /\ first \in Nat /\ seq \in Nat
  BY BoundsAssumption DEF IInv, Types, Lane, Free
<1>1. CASE AppendEvent
  <2>1. cursor' = cursor
    BY <1>1 DEF AppendEvent, Accepting
  <2> QED BY <1>1, <2>1, AppendKeeps
<1>2. CASE Prune
  <2>1. /\ seq' = seq /\ cursor' = cursor /\ cut' = cut /\ lane' = lane
        /\ first' \in first + 1 .. seq + 1
    BY <1>2 DEF Prune, Accepting
  <2>2. first' \in Nat /\ first <= first' /\ \A l \in Lanes : Kept(l)
    BY <2>1, <1>0 DEF Kept
  <2> QED BY <2>1, <2>2, <1>0, OthersKeep
<1>3. ASSUME NEW n \in Events, Push(n) PROVE IInv' /\ cursor' = cursor
  <2>1. Rests /\ UNCHANGED lane
    BY <1>3 DEF Push, Begin, Rests
  <2> QED BY <2>1, RestKeeps DEF Rests
<1>4. ASSUME NEW i \in Isolates, NEW n \in Events, Write(i, n) \/ Apply(i, n)
      PROVE  IInv' /\ cursor' = cursor
  <2>1. Rests /\ UNCHANGED lane
    BY <1>4 DEF Write, Apply, Rests, Edge
  <2> QED BY <2>1, RestKeeps DEF Rests
<1>5. ASSUME NEW l \in Lanes, Reads(l) PROVE IInv' /\ [SkipsNone]_cursor
  <2>1. CASE Wanted(l)
    BY <2>1, WantedKeeps DEF Wanted, Accepting
  <2>2. CASE Opened(l)
    BY <2>2, OpenedKeeps DEF Opened, Accepting
  <2> QED BY <1>5, <2>1, <2>2, FrameKeeps DEF Reads
<1>6. ASSUME NEW l \in Lanes, Fails(l) PROVE IInv' /\ cursor' = cursor
  <2>1. Rests /\ lane' = [lane EXCEPT ![l] = Free]
    BY <1>6 DEF Fails, Rests, Edge, Accepting
  <2>2. lane' \in [Lanes -> Lane] /\ \A k \in Lanes : Kept(k)
    BY <2>1, <1>0 DEF Kept
  <2> QED BY <2>1, <2>2, FreedKeeps DEF Rests
<1>7. ASSUME NEW l \in Lanes, Dropped(l) PROVE IInv' /\ cursor' = cursor
  <2>1. Rests /\ Close({l})
    BY <1>7 DEF Dropped, Rests, Edge, Accepting
  <2> QED BY <2>1, CloseKeeps, FreedKeeps DEF Rests
<1>8. CASE Retry \/ Settle \/ Hold \/ Resume
  <2>1. Rests /\ Connect
    BY <1>8 DEF Retry, Settle, Hold, Resume, Rests, Edge, Accepting
  <2> QED BY <2>1, ConnectKeeps, FreedKeeps DEF Rests
<1>9. CASE Release \/ Pause
  <2>1. Rests /\ Close({})
    BY <1>9 DEF Release, Pause, Rests, Edge, Accepting
  <2> QED BY <2>1, CloseKeeps, FreedKeeps DEF Rests
<1>10. CASE Die
  <2>1. Rests /\ lane' = [l \in Lanes |-> Free]
    BY <1>10 DEF Die, Rests, Edge
  <2>2. lane' \in [Lanes -> Lane] /\ \A l \in Lanes : Kept(l)
    BY <2>1, <1>0 DEF Kept
  <2> QED BY <2>1, <2>2, FreedKeeps DEF Rests
<1>11. CASE Rings
  <2>1. Rests /\ UNCHANGED lane
    BY <1>11 DEF Rings, Rests, Edge, Accepting
  <2> QED BY <2>1, RestKeeps DEF Rests
<1>12. CASE UNCHANGED vars
  <2>1. Rests /\ UNCHANGED lane
    BY <1>12 DEF vars, Rests, Edge, Accepting
  <2> QED BY <2>1, RestKeeps DEF Rests
<1> QED BY <1>1, <1>2, <1>3, <1>4, <1>5, <1>6, <1>7, <1>8, <1>9, <1>10, <1>11, <1>12
        DEF Next, Accepts, Prune, Accepting

\* The cursor passes only events that were delivered, pruned or cut, however
\* many streams are open, pushes come between and connections end: of a log of
\* any length, any page and any number of connect() calls.
THEOREM CursorSkipsNone == Spec => NothingSkipped
<1>1. IInv /\ [Next]_vars => IInv' /\ [SkipsNone]_cursor
  BY NextKeeps
<1> QED BY InitKeeps, <1>1, PTL DEF Spec, NothingSkipped
-----------------------------------------------------------------------------
(***************************************************************************)
(* The app applies a number once.                                          *)
(*                                                                         *)
(* A number is taken when its handler was or will be called.  It is on the *)
(* list then, and whoever is still to write it has read it there: for who  *)
(* writes it first finds nobody else about to, or it has clashed, and who  *)
(* reads the list later finds it, or it has clashed as well.               *)
(***************************************************************************)
LogOK ==
  /\ first \in 1..seq + 1
  /\ pushes \subseteq 1..seq /\ listed \subseteq 1..seq
  /\ cut \subseteq 1..seq /\ lost \subseteq 1..seq /\ clashed \subseteq 1..seq

RetryOK ==
  /\ retry \in {"none", "set", "again"} /\ failures \in 0..Long
  /\ retry # "none" => front

ChannelOK ==
  /\ {front, settled, timer, connecting, leaked, shut} \subseteq BOOLEAN
  /\ stream # NoLane => stream \in Lanes /\ lane[stream].pc = "open"
  /\ RetryOK

AcceptOK ==
  /\ seen \in [Isolates -> SUBSET (1..seq)]
  /\ task \in [Isolates -> [Events -> Task]]
  /\ \A i \in Isolates, n \in Events :
       task[i][n].read \subseteq 1..seq /\ (task[i][n] # NoTask => n \in seen[i])
  /\ applied \in [Events -> 0..2]

Applying(i, n) == task[i][n].pc = "apply"
Taken(n) == applied[n] > 0 \/ \E i \in Isolates : Applying(i, n)

OnceHandled(n) ==
  /\ Taken(n) =>
       /\ n \in listed
       /\ \A i \in Isolates : task[i][n].pc = "write" => n \in task[i][n].read
  /\ \A i, j \in Isolates : Applying(i, n) => applied[n] = 0 /\ (Applying(j, n) => j = i)
  /\ applied[n] <= 1

Once == \A n \in Events : n \notin clashed => OnceHandled(n)

Shape == LogOK /\ ChannelOK /\ AcceptOK /\ trouble \in 0..MaxTrouble

Whole == IInv /\ Shape /\ Once

LEMMA WholeTyped == Whole => TypeOK /\ AppliedOnce
BY DEF Whole, IInv, Types, Shape, LogOK, ChannelOK, RetryOK, AcceptOK, TypeOK, Once, OnceHandled, AppliedOnce

LEMMA InitWhole == Init => Whole
<1> SUFFICES ASSUME Init PROVE Whole
  OBVIOUS
<1>1. IInv
  BY InitKeeps
<1>2. NoTask \in Task /\ NoTask.pc = "none"
  BY DEF NoTask, Task
<1>3. LogOK /\ trouble \in 0..MaxTrouble
  BY BoundsAssumption DEF Init, LogOK
<1>r. RetryOK
  BY BoundsAssumption DEF Init, RetryOK
<1>c. ChannelOK
  BY <1>r, Zenon DEF Init, ChannelOK
<1>4. AcceptOK
  BY <1>2 DEF Init, AcceptOK, NoTask
<1>5. Once
  BY <1>2 DEF Init, Once, OnceHandled, Taken, Applying
<1> QED BY <1>1, <1>3, <1>c, <1>4, <1>5 DEF Whole, Shape

\* The log grows, and with it what the numbers may be.
LEMMA LogGrows ==
  ASSUME Whole
  PROVE  /\ seq \in Nat /\ 1..seq \subseteq 1..seq + 1 /\ 1..seq \subseteq Events
         /\ seq + 1 \in 1..seq + 1 /\ first \in Nat
BY BoundsAssumption DEF Whole, IInv, Types, Events

LEMMA AppendWhole ==
  ASSUME Whole, AppendEvent
  PROVE  Whole'
<1>1. IInv'
  BY AppendKeeps DEF Whole
<1>2. /\ seq' = seq + 1 /\ first' = first /\ pushes' = pushes \cup {seq + 1}
      /\ UNCHANGED <<Channel, Accepting, cut, trouble, shut>>
  BY DEF AppendEvent
<1>3. LogOK'
  <2>1. first \in 1..seq + 1 => first \in 1..(seq + 1) + 1
    BY LogGrows
  <2>2. /\ first \in 1..seq + 1 /\ pushes \cup {seq + 1} \subseteq 1..seq + 1
        /\ listed \subseteq 1..seq + 1 /\ cut \subseteq 1..seq + 1
        /\ lost \subseteq 1..seq + 1 /\ clashed \subseteq 1..seq + 1
    BY LogGrows DEF Whole, Shape, LogOK
  <2> QED BY <1>2, <2>1, <2>2 DEF LogOK, Accepting
<1>4. \A l \in Lanes : lane[l].pc = "open" => lane'[l].pc = "open"
  <2>1. \A l \in Lanes : lane[l] \in Lane
    BY DEF Whole, IInv, Types
  <2> QED BY <2>1 DEF AppendEvent, Lane
<1>5. ChannelOK'
  BY <1>2, <1>4 DEF Whole, Shape, ChannelOK, RetryOK, Channel
<1>6. AcceptOK'
  <2>1. \A i \in Isolates : seen'[i] \in SUBSET (1..seq')
    BY <1>2, LogGrows DEF Whole, Shape, AcceptOK, Accepting
  <2>2. seen' \in [Isolates -> SUBSET (1..seq')]
    BY <2>1, <1>2 DEF Whole, Shape, AcceptOK, Accepting
  <2>3. \A i \in Isolates, n \in Events :
          task'[i][n].read \subseteq 1..seq' /\ (task'[i][n] # NoTask => n \in seen'[i])
    BY <1>2, LogGrows DEF Whole, Shape, AcceptOK, Accepting
  <2> QED BY <2>2, <2>3, <1>2 DEF Whole, Shape, AcceptOK, Accepting
<1>7. Once'
  BY <1>2 DEF Whole, Once, OnceHandled, Taken, Applying, Accepting
<1> QED BY <1>1, <1>2, <1>3, <1>5, <1>6, <1>7 DEF Whole, Shape

\* What begins, writes and applies nothing.
LEMMA AcceptsAlone ==
  ASSUME Whole, seq' = seq, UNCHANGED <<seen, task, applied, listed, clashed>>
  PROVE  AcceptOK' /\ Once'
BY DEF Whole, Shape, AcceptOK, Once, OnceHandled, Taken, Applying

\* What an isolate sees for the first time it is about to write.
LEMMA BeginKeeps ==
  ASSUME Whole, NEW i \in Isolates, NEW n \in Events, n <= seq, NEW advance, Begin(i, n, advance),
         seq' = seq, UNCHANGED <<applied, listed, clashed>>
  PROVE  AcceptOK' /\ Once'
<1>1. CASE n \in seen[i]
  BY <1>1, AcceptsAlone DEF Begin
<1>2. CASE n \notin seen[i]
  <2> DEFINE begun == [pc |-> "write", read |-> listed]
  <2>1. /\ seen' = [seen EXCEPT ![i] = @ \cup {n}]
        /\ task' = [task EXCEPT ![i][n] = begun]
    BY <1>2 DEF Begin
  <2>2. begun \in Task /\ begun.pc = "write" /\ begun.read = listed
    BY LogGrows DEF Whole, Shape, LogOK, Task
  <2>3. n \in 1..seq
    BY LogGrows, BoundsAssumption DEF Events
  <2> HIDE DEF begun
  <2>4. /\ \A j \in Isolates, m \in Events :
             task'[j][m] = IF j = i /\ m = n THEN begun ELSE task[j][m]
        /\ task' \in [Isolates -> [Events -> Task]]
    BY <2>1, <2>2 DEF Whole, Shape, AcceptOK
  <2>5. /\ \A j \in Isolates : seen'[j] = IF j = i THEN seen[j] \cup {n} ELSE seen[j]
        /\ seen' \in [Isolates -> SUBSET (1..seq)]
    BY <2>1, <2>3 DEF Whole, Shape, AcceptOK
  <2>6. AcceptOK'
    <3>1. ASSUME NEW j \in Isolates, NEW m \in Events
          PROVE  task'[j][m].read \subseteq 1..seq /\ (task'[j][m] # NoTask => m \in seen'[j])
      <4>1. CASE j = i /\ m = n
        BY <4>1, <2>2, <2>4, <2>5 DEF Whole, Shape, LogOK
      <4>2. CASE ~(j = i /\ m = n)
        BY <4>2, <2>4, <2>5 DEF Whole, Shape, AcceptOK
      <4> QED BY <4>1, <4>2
    <3> QED BY <3>1, <2>4, <2>5 DEF Whole, Shape, AcceptOK
  <2>7. task[i][n] = NoTask
    BY <1>2 DEF Whole, Shape, AcceptOK
  <2>8. \A j \in Isolates, m \in Events : Applying(j, m)' <=> Applying(j, m)
    BY <2>2, <2>4, <2>7 DEF Applying, NoTask
  <2>9. ASSUME NEW m \in Events, m \notin clashed PROVE OnceHandled(m)'
    <3>1. OnceHandled(m) /\ (Taken(m)' <=> Taken(m))
      BY <2>8, <2>9 DEF Whole, Once, Taken
    <3>2. Taken(m) => \A j \in Isolates : task'[j][m].pc = "write" => m \in task'[j][m].read
      BY <3>1, <2>2, <2>4 DEF OnceHandled
    <3> QED BY <3>1, <3>2, <2>8 DEF OnceHandled
  <2>10. Once'
    BY <2>9 DEF Once
  <2> QED BY <2>6, <2>10
<1> QED BY <1>1, <1>2

LEMMA PushWhole ==
  ASSUME Whole, NEW n \in Events, Push(n)
  PROVE  Whole'
<1>1. Rests /\ UNCHANGED lane
  BY DEF Push, Begin, Rests
<1>2. IInv'
  BY <1>1, RestKeeps DEF Whole
<1>3. /\ n \in pushes /\ n <= seq
      /\ pushes' = pushes \ {n}
      /\ UNCHANGED <<first, Channel, lane, listed, applied, lost, clashed, cut, trouble, shut>>
  BY LogGrows DEF Push, Whole, Shape, LogOK
<1>4. PICK i \in Isolates : Begin(i, n, FALSE)
  BY DEF Push, Isolates
<1>5. AcceptOK' /\ Once'
  BY <1>1, <1>3, <1>4, BeginKeeps DEF Rests
<1>6. LogOK' /\ ChannelOK' /\ trouble' \in 0..MaxTrouble
  BY <1>1, <1>3 DEF Whole, Shape, LogOK, ChannelOK, RetryOK, Channel, Rests
<1> QED BY <1>2, <1>5, <1>6 DEF Whole, Shape

LEMMA FrameWhole ==
  ASSUME Whole, NEW l \in Lanes, Frame(l)
  PROVE  Whole'
<1> DEFINE n == Head(lane[l].queue)
<1>1. IInv'
  BY FrameKeeps DEF Whole
<1>2. /\ lane[l].pc = "open" /\ lane[l].queue # << >>
      /\ lane' = [lane EXCEPT ![l].queue = Tail(@)]
      /\ Begin("app", n, TRUE)
      /\ seq' = seq /\ first' = first /\ pushes' = pushes
      /\ UNCHANGED <<Channel, listed, applied, lost, clashed, cut, trouble, shut>>
  BY DEF Frame, Edge
<1>3. lane \in [Lanes -> Lane] /\ lane[l].queue \in Seq(Events) /\ Ordered(l)
  BY DEF Whole, IInv, Types, Lane, Owes
<1>4. n \in Events /\ n <= seq
  BY <1>2, <1>3, LogGrows, TailAscends DEF Ordered
<1> HIDE DEF n
<1>5. AcceptOK' /\ Once'
  BY <1>2, <1>4, BeginKeeps DEF Isolates
<1>6. \A k \in Lanes : lane'[k].pc = lane[k].pc
  BY <1>2, <1>3 DEF Lane
<1>7. LogOK' /\ ChannelOK' /\ trouble' \in 0..MaxTrouble
  BY <1>2, <1>6 DEF Whole, Shape, LogOK, ChannelOK, RetryOK, Channel
<1> QED BY <1>1, <1>5, <1>7 DEF Whole, Shape

\* Who writes a number first finds nobody else about to; what it takes off
\* the list clashes.
LEMMA WriteWhole ==
  ASSUME Whole, NEW i \in Isolates, NEW n \in Events, Write(i, n)
  PROVE  Whole'
<1>1. Rests /\ UNCHANGED lane
  BY DEF Write, Rests, Edge
<1>2. IInv'
  BY <1>1, RestKeeps DEF Whole
<1>3. /\ task[i][n].pc = "write"
      /\ UNCHANGED <<Edge, Channel, lane, cursor, seen, applied, lost, cut, trouble, shut>>
  BY DEF Write
<1>t. /\ task \in [Isolates -> [Events -> Task]] /\ n \in seen[i]
      /\ seen \in [Isolates -> SUBSET (1..seq)] /\ task[i][n].read \subseteq Events
  BY <1>3 DEF Whole, Shape, AcceptOK, NoTask, Task
<1>4. CASE n \in task[i][n].read
  <2>1. task' = [task EXCEPT ![i][n] = NoTask] /\ UNCHANGED <<listed, clashed>>
    BY <1>4 DEF Write, Known
  <2>2. NoTask \in Task /\ NoTask.pc = "none"
    BY DEF NoTask, Task
  <2>r. NoTask.read = {}
    BY DEF NoTask
  <2>3. /\ \A j \in Isolates, m \in Events :
             task'[j][m] = IF j = i /\ m = n THEN NoTask ELSE task[j][m]
        /\ task' \in [Isolates -> [Events -> Task]]
    BY <2>1, <2>2, <1>t
  <2>4. AcceptOK'
    <3>1. \A j \in Isolates, m \in Events :
            task'[j][m].read \subseteq 1..seq /\ (task'[j][m] # NoTask => m \in seen[j])
      BY <2>r, <2>3 DEF Whole, Shape, AcceptOK
    <3> QED BY <3>1, <2>3, <1>3 DEF Whole, Shape, AcceptOK, Edge
  <2>5. \A j \in Isolates, m \in Events : Applying(j, m)' <=> Applying(j, m)
    BY <2>2, <2>3, <1>3 DEF Applying
  <2>6. ASSUME NEW m \in Events, m \notin clashed PROVE OnceHandled(m)'
    <3>1. OnceHandled(m) /\ (Taken(m)' <=> Taken(m))
      BY <2>5, <2>6, <1>3 DEF Whole, Once, Taken
    <3>2. Taken(m) => \A j \in Isolates : task'[j][m].pc = "write" => m \in task'[j][m].read
      BY <3>1, <2>2, <2>3 DEF OnceHandled
    <3> QED BY <3>1, <3>2, <2>1, <2>5, <1>3 DEF OnceHandled
  <2>7. Once'
    BY <2>1, <2>6 DEF Once
  <2>8. LogOK' /\ ChannelOK' /\ trouble' \in 0..MaxTrouble
    BY <2>1, <1>3 DEF Whole, Shape, LogOK, ChannelOK, RetryOK, Channel, Edge
  <2> QED BY <1>2, <2>4, <2>7, <2>8 DEF Whole, Shape
<1>5. CASE n \notin task[i][n].read
  <2> DEFINE taken == [pc |-> "apply", read |-> {}]
             others == {m \in {n} : \E j \in Isolates \ {i} : task[j][m].pc = "write"}
  <2>1. /\ listed' = task[i][n].read \cup {n}
        /\ task' = [task EXCEPT ![i][n] = taken]
        /\ clashed' = clashed \cup (listed \ listed') \cup others
    BY <1>5 DEF Write, Known
  <2>2. taken \in Task /\ taken.pc = "apply" /\ taken.read = {}
    BY DEF Task
  <2> HIDE DEF taken
  <2>3. /\ \A j \in Isolates, m \in Events :
             task'[j][m] = IF j = i /\ m = n THEN taken ELSE task[j][m]
        /\ task' \in [Isolates -> [Events -> Task]]
    BY <2>1, <2>2, <1>t
  <2>4. AcceptOK'
    <3>1. \A j \in Isolates, m \in Events :
            task'[j][m].read \subseteq 1..seq /\ (task'[j][m] # NoTask => m \in seen[j])
      BY <2>2, <2>3, <1>t DEF Whole, Shape, AcceptOK
    <3> QED BY <3>1, <2>3, <1>3 DEF Whole, Shape, AcceptOK, Edge
  <2>5. n \in 1..seq /\ task[i][n].read \subseteq 1..seq
    BY <1>t DEF Whole, Shape, AcceptOK
  <2>6. LogOK'
    <3>1. others \subseteq 1..seq /\ listed' \subseteq 1..seq /\ clashed \subseteq 1..seq
      BY <2>1, <2>5 DEF Whole, Shape, LogOK
    <3>2. clashed' \subseteq 1..seq
      BY <2>1, <3>1 DEF Whole, Shape, LogOK
    <3> QED BY <3>1, <3>2, <1>3 DEF Whole, Shape, LogOK, Edge
  <2>7. ChannelOK' /\ trouble' \in 0..MaxTrouble
    BY <1>3 DEF Whole, Shape, ChannelOK, RetryOK, Channel
  <2>8. ASSUME NEW m \in Events, m \notin clashed', m # n PROVE OnceHandled(m)'
    <3>1. OnceHandled(m)
      BY <2>1, <2>8 DEF Whole, Once
    <3>2. \A j \in Isolates : task'[j][m] = task[j][m]
      BY <2>3, <2>8
    <3>3. m \in listed => m \in listed'
      BY <2>1, <2>8
    <3> QED BY <3>1, <3>2, <3>3, <1>3 DEF OnceHandled, Taken, Applying
  <2>9. n \notin clashed' => OnceHandled(n)'
    <3> SUFFICES ASSUME n \notin clashed' PROVE OnceHandled(n)'
      OBVIOUS
    <3>1. OnceHandled(n) /\ \A j \in Isolates : j # i => task[j][n].pc # "write"
      BY <2>1 DEF Whole, Once
    <3>2. ~Taken(n) /\ applied[n] \in 0..2
      BY <3>1, <1>3, <1>5 DEF OnceHandled, Whole, Shape, AcceptOK
    <3>3. applied'[n] = 0 /\ \A j \in Isolates : ~Applying(j, n)
      BY <3>2, <1>3 DEF Taken
    <3>4. \A j \in Isolates : j # i => task'[j][n] = task[j][n]
      BY <2>3
    <3>5. task'[i][n].pc = "apply"
      BY <2>2, <2>3
    <3> QED BY <2>1, <3>1, <3>3, <3>4, <3>5 DEF OnceHandled, Applying
  <2>10. Once'
    BY <2>8, <2>9 DEF Once
  <2> QED BY <1>2, <2>4, <2>6, <2>7, <2>10 DEF Whole, Shape
<1> QED BY <1>4, <1>5

LEMMA ApplyWhole ==
  ASSUME Whole, NEW i \in Isolates, NEW n \in Events, Apply(i, n)
  PROVE  Whole'
<1>1. Rests /\ UNCHANGED lane
  BY DEF Apply, Rests, Edge
<1>2. IInv'
  BY <1>1, RestKeeps DEF Whole
<1>3. /\ task[i][n].pc = "apply"
      /\ applied' = [applied EXCEPT ![n] = Lesser(@ + 1, 2)]
      /\ task' = [task EXCEPT ![i][n] = NoTask]
      /\ UNCHANGED <<Edge, Channel, lane, cursor, listed, seen, lost, clashed, cut, trouble, shut>>
  BY DEF Apply
<1>4. NoTask \in Task /\ NoTask.pc = "none" /\ NoTask.read = {}
  BY DEF NoTask, Task
<1>5. /\ \A j \in Isolates, m \in Events :
           task'[j][m] = IF j = i /\ m = n THEN NoTask ELSE task[j][m]
      /\ task' \in [Isolates -> [Events -> Task]]
  BY <1>3, <1>4 DEF Whole, Shape, AcceptOK
<1>6. /\ \A m \in Events : applied'[m] = IF m = n THEN Lesser(applied[n] + 1, 2) ELSE applied[m]
      /\ applied' \in [Events -> 0..2]
  <2>1. Lesser(applied[n] + 1, 2) \in 0..2
    BY DEF Whole, Shape, AcceptOK, Lesser
  <2> QED BY <2>1, <1>3 DEF Whole, Shape, AcceptOK
<1>7. AcceptOK'
  BY <1>3, <1>4, <1>5, <1>6 DEF Whole, Shape, AcceptOK, Edge
<1>8. LogOK' /\ ChannelOK' /\ trouble' \in 0..MaxTrouble
  BY <1>3 DEF Whole, Shape, LogOK, ChannelOK, RetryOK, Channel, Edge
<1>9. ASSUME NEW m \in Events, m \notin clashed, m # n PROVE OnceHandled(m)'
  <2>1. OnceHandled(m)
    BY <1>9 DEF Whole, Once
  <2>2. applied'[m] = applied[m] /\ \A j \in Isolates : task'[j][m] = task[j][m]
    BY <1>5, <1>6, <1>9
  <2> QED BY <2>1, <2>2, <1>3 DEF OnceHandled, Taken, Applying
<1>10. n \notin clashed => OnceHandled(n)'
  <2> SUFFICES ASSUME n \notin clashed PROVE OnceHandled(n)'
    OBVIOUS
  <2>1. OnceHandled(n)
    BY DEF Whole, Once
  <2>2. /\ applied[n] = 0 /\ n \in listed
        /\ \A j \in Isolates : Applying(j, n) => j = i
        /\ \A j \in Isolates : task[j][n].pc = "write" => n \in task[j][n].read
    BY <2>1, <1>3 DEF OnceHandled, Applying, Taken
  <2>3. applied'[n] = 1
    BY <2>2, <1>6 DEF Lesser
  <2>4. \A j \in Isolates : ~Applying(j, n)' /\ (task'[j][n].pc = "write" => n \in task'[j][n].read)
    BY <2>2, <1>4, <1>5 DEF Applying
  <2> QED BY <2>2, <2>3, <2>4, <1>3 DEF OnceHandled
<1>11. Once'
  BY <1>3, <1>9, <1>10 DEF Once
<1> QED BY <1>2, <1>7, <1>8, <1>11 DEF Whole, Shape

LEMMA DieWhole ==
  ASSUME Whole, Die
  PROVE  Whole'
<1>1. /\ Rests /\ lane' = [l \in Lanes |-> Free]
      /\ UNCHANGED <<Edge, cursor, listed, applied, clashed, cut, shut>>
      /\ seen' = [i \in Isolates |-> {}]
      /\ task' = [i \in Isolates |-> [n \in Events |-> NoTask]]
      /\ front' = FALSE /\ settled' = FALSE /\ timer' = FALSE /\ retry' = "none"
      /\ failures' = 0 /\ connecting' = FALSE /\ stream' = NoLane /\ leaked' = FALSE
      /\ Trouble
  BY DEF Die, Rests, Edge
<1>2. IInv'
  <2>1. lane \in [Lanes -> Lane] /\ Free \in Lane
    BY BoundsAssumption DEF Whole, IInv, Types, Lane, Free
  <2>2. lane' \in [Lanes -> Lane] /\ \A l \in Lanes : Kept(l)
    BY <1>1, <2>1 DEF Kept
  <2> QED BY <1>1, <2>2, FreedKeeps DEF Whole
<1>3. NoTask \in Task /\ NoTask.pc = "none" /\ NoTask.read = {}
  BY DEF NoTask, Task
<1>4. AcceptOK'
  BY <1>1, <1>3 DEF Whole, Shape, AcceptOK, Edge
<1>5. lost' \subseteq 1..seq
  <2>1. \A i \in Isolates, n \in Events : task[i][n].pc # "none" => n \in 1..seq
    BY <1>3 DEF Whole, Shape, AcceptOK
  <2> QED BY <2>1 DEF Die, Whole, Shape, LogOK
<1>6. LogOK' /\ ChannelOK'
  <2>1. RetryOK'
    BY <1>1, BoundsAssumption DEF RetryOK
  <2> QED BY <1>1, <1>5, <2>1 DEF Whole, Shape, LogOK, ChannelOK, Edge
<1>7. trouble' \in 0..MaxTrouble
  BY <1>1, BoundsAssumption DEF Trouble, Whole, Shape
<1>8. Once'
  <2>1. \A i \in Isolates, n \in Events : task'[i][n] = NoTask
    BY <1>1
  <2> QED BY <2>1, <1>1, <1>3 DEF Whole, Once, OnceHandled, Taken, Applying
<1> QED BY <1>2, <1>4, <1>6, <1>7, <1>8 DEF Whole, Shape

\* What only the channel does.
LEMMA ChannelWhole ==
  ASSUME Whole, IInv', UNCHANGED <<seq, pushes, Accepting>>,
         first' \in 1..seq + 1, cut' \subseteq 1..seq, trouble' \in 0..MaxTrouble, ChannelOK'
  PROVE  Whole'
<1>1. LogOK'
  BY DEF Whole, Shape, LogOK, Accepting
<1>2. AcceptOK' /\ Once'
  BY AcceptsAlone DEF Accepting
<1> QED BY <1>1, <1>2 DEF Whole, Shape

LEMMA ConnectOpens ==
  ASSUME Whole, Connect
  PROVE  \A l \in Lanes : lane[l].pc = "open" => lane'[l].pc = "open"
<1>1. \A l \in Lanes : lane[l] \in Lane
  BY DEF Whole, IInv, Types
<1>2. UNCHANGED lane \/ \E k \in Lanes : lane[k].pc = "free" /\ lane' = [lane EXCEPT ![k].pc = "checking"]
  BY DEF Connect
<1>3. ASSUME NEW k \in Lanes, lane[k].pc = "free", lane' = [lane EXCEPT ![k].pc = "checking"],
             NEW l \in Lanes, lane[l].pc = "open"
      PROVE  lane'[l].pc = "open"
  <2>1. l # k
    BY <1>3
  <2> QED BY <1>3, <2>1 DEF Whole, IInv, Types
<1> QED BY <1>2, <1>3

LEMMA ReadsWhole ==
  ASSUME Whole, IInv', NEW l \in Lanes, Wanted(l) \/ Opened(l)
  PROVE  Whole'
<1>0. /\ lane \in [Lanes -> Lane] /\ ChannelOK /\ LogOK /\ trouble \in 0..MaxTrouble
      /\ NoLane \notin Lanes
  BY LanesAssumption DEF Whole, IInv, Types, Shape, NoLane
<1>1. CASE Wanted(l)
  <2>1. /\ UNCHANGED <<seq, pushes, Accepting, first, cut, trouble>>
        /\ UNCHANGED <<front, settled, timer, retry, failures, stream, leaked, shut>>
    BY <1>1 DEF Wanted, Edge
  <2>2. connecting' \in BOOLEAN
    BY <1>1, <1>0 DEF Wanted, ChannelOK
  <2>3. lane[l].pc = "checking" /\ \A k \in Lanes : k # l => lane'[k] = lane[k]
    BY <1>1, <1>0 DEF Wanted
  <2>4. ChannelOK'
    BY <2>1, <2>2, <2>3, <1>0 DEF ChannelOK, RetryOK
  <2> QED BY <2>1, <2>4, <1>0, ChannelWhole DEF LogOK
<1>2. CASE Opened(l)
  <2>1. /\ UNCHANGED <<seq, pushes, Accepting, first, trouble>>
        /\ UNCHANGED <<front, timer, retry, failures, shut>>
        /\ connecting' = FALSE /\ lane[l].pc = "opening"
    BY <1>2 DEF Opened, Edge
  <2>2. CASE front
    <3>1. PICK a \in Nat \ {0} :
            /\ \E q : lane' = [lane EXCEPT ![l] = [pc |-> "open", after |-> 0, queue |-> q]]
            /\ stream' = l /\ settled' = TRUE /\ leaked' = (leaked \/ stream # NoLane)
            /\ cut' = cut \cup (a .. seq)
      <4> DEFINE oldest == Greater(lane[l].after + 1, first)
                 newest == Lesser(seq, oldest + Page - 1)
      <4>1. /\ lane' = [lane EXCEPT ![l] = [pc |-> "open", after |-> 0,
                                            queue |-> Numbers(oldest, newest)]]
            /\ stream' = l /\ settled' = TRUE /\ leaked' = (leaked \/ stream # NoLane)
            /\ cut' = cut \cup (newest + 1 .. seq)
        BY <1>2, <2>2 DEF Opened
      <4>2. lane[l].after \in Nat /\ first \in Nat \ {0} /\ seq \in Nat /\ Page \in Nat \ {0}
        BY <1>0, BoundsAssumption DEF Lane, LogOK, Whole, IInv, Types
      <4>3. newest + 1 \in Nat \ {0}
        BY <4>2 DEF Greater, Lesser
      <4> QED BY <4>1, <4>3
    <3>2. lane'[l].pc = "open"
      BY <3>1, <1>0
    <3>3. ChannelOK'
      BY <2>1, <3>1, <3>2, <1>0 DEF ChannelOK, RetryOK
    <3>4. seq \in Nat /\ a .. seq \subseteq 1 .. seq
      BY BoundsAssumption DEF Whole, IInv, Types
    <3>5. cut' \subseteq 1..seq
      BY <3>1, <3>4, <1>0 DEF LogOK
    <3> QED BY <2>1, <3>3, <3>5, <1>0, ChannelWhole DEF LogOK
  <2>3. CASE ~front
    <3>1. lane' = [lane EXCEPT ![l] = Free] /\ UNCHANGED <<stream, settled, leaked, cut>>
      BY <1>2, <2>3 DEF Opened
    <3>2. \A k \in Lanes : k # l => lane'[k] = lane[k]
      BY <3>1, <1>0
    <3>3. ChannelOK'
      BY <2>1, <3>1, <3>2, <1>0 DEF ChannelOK, RetryOK
    <3> QED BY <2>1, <3>1, <3>3, <1>0, ChannelWhole DEF LogOK
  <2> QED BY <2>2, <2>3
<1> QED BY <1>1, <1>2

LEMMA TroubleCounts ==
  ASSUME Whole, Trouble
  PROVE  trouble' \in 0..MaxTrouble
BY BoundsAssumption DEF Whole, Shape, Trouble

LEMMA ScheduleOK ==
  ASSUME RetryOK, front \in BOOLEAN, front' = front, NEW kind \in {"set", "again"},
         NEW before \in 0..Long, Schedule(kind, before)
  PROVE  RetryOK'
<1>1. Lesser(before + 1, Long) \in 0..Long
  BY BoundsAssumption DEF Lesser
<1> QED BY <1>1 DEF RetryOK, Schedule

LEMMA EndsWhole ==
  ASSUME Whole, IInv', NEW l \in Lanes, Fails(l) \/ Dropped(l)
  PROVE  Whole'
<1>0. lane \in [Lanes -> Lane] /\ ChannelOK /\ LogOK /\ RetryOK /\ failures \in 0..Long
  BY DEF Whole, IInv, Types, Shape, ChannelOK, RetryOK
<1>1. UNCHANGED <<seq, pushes, Accepting, first, cut>> /\ trouble' \in 0..MaxTrouble
  BY TroubleCounts DEF Fails, Dropped, Edge
<1>2. CASE Fails(l)
  <2>1. /\ lane[l].pc = "opening" /\ lane' = [lane EXCEPT ![l] = Free]
        /\ connecting' = FALSE
        /\ Schedule("set", failures) \/ UNCHANGED <<retry, failures>>
        /\ UNCHANGED <<front, settled, timer, stream, leaked, shut>>
    BY <1>2 DEF Fails
  <2>2. \A k \in Lanes : k # l => lane'[k] = lane[k]
    BY <2>1, <1>0
  <2>3. {front, settled, timer, connecting, leaked, shut}' \subseteq BOOLEAN
    BY <2>1, <1>0 DEF ChannelOK
  <2>4. RetryOK'
    <3>1. CASE Schedule("set", failures)
      BY <3>1, <2>1, <1>0, ScheduleOK DEF ChannelOK
    <3>2. CASE UNCHANGED <<retry, failures>>
      BY <3>2, <2>1, <1>0 DEF RetryOK
    <3> QED BY <2>1, <3>1, <3>2
  <2>5. ChannelOK'
    BY <2>1, <2>2, <2>3, <2>4, <1>0 DEF ChannelOK
  <2> QED BY <1>0, <1>1, <2>5, ChannelWhole DEF LogOK
<1>3. CASE Dropped(l)
  <2>1. /\ stream' = NoLane
        /\ UNCHANGED <<front, settled, timer, connecting, leaked, shut>>
    BY <1>3 DEF Dropped, Close
  <2>2. PICK before \in {failures} \cup (IF stream # NoLane THEN {0} ELSE {}) :
          Schedule("set", before)
    BY <1>3 DEF Dropped
  <2>3. before \in 0..Long
    BY <1>0, <2>2, BoundsAssumption
  <2>4. RetryOK'
    BY <2>1, <2>2, <2>3, <1>0, ScheduleOK DEF ChannelOK
  <2>5. ChannelOK'
    BY <2>1, <2>4, <1>0 DEF ChannelOK
  <2> QED BY <1>0, <1>1, <2>5, ChannelWhole DEF LogOK
<1> QED BY <1>2, <1>3

LEMMA RingsWhole ==
  ASSUME Whole, IInv', Rings
  PROVE  Whole'
<1>1. /\ UNCHANGED <<seq, pushes, Accepting, first, cut, trouble, lane>>
      /\ UNCHANGED <<front, settled, timer, connecting, stream, leaked, shut>>
      /\ Schedule("again", failures)
  BY DEF Rings, Edge
<1>2. ChannelOK /\ RetryOK /\ failures \in 0..Long /\ LogOK /\ trouble \in 0..MaxTrouble
  BY DEF Whole, Shape, ChannelOK, RetryOK
<1>3. RetryOK'
  BY <1>1, <1>2, ScheduleOK DEF ChannelOK
<1>4. ChannelOK'
  BY <1>1, <1>2, <1>3 DEF ChannelOK
<1> QED BY <1>1, <1>2, <1>4, ChannelWhole DEF LogOK

LEMMA LifeWhole ==
  ASSUME Whole, IInv', Retry \/ Settle \/ Hold \/ Release \/ Pause \/ Resume
  PROVE  Whole'
<1>0. ChannelOK /\ LogOK /\ trouble \in 0..MaxTrouble
  BY DEF Whole, Shape
<1>1. UNCHANGED <<seq, pushes, Accepting, first, cut>> /\ trouble' \in 0..MaxTrouble
  BY <1>0, TroubleCounts DEF Retry, Settle, Hold, Release, Pause, Resume, Edge
<1>2. \/ stream' = NoLane
      \/ stream' = stream /\ \A l \in Lanes : lane[l].pc = "open" => lane'[l].pc = "open"
  BY ConnectOpens DEF Retry, Settle, Hold, Release, Pause, Resume, Close, Channel
<1>3. {front, settled, timer, connecting, leaked, shut}' \subseteq BOOLEAN
  <2>1. CASE Retry \/ Settle \/ Hold
    BY <2>1, <1>0 DEF Retry, Settle, Hold, ChannelOK, RetryOK, Channel
  <2>2. CASE Release
    BY <2>2, <1>0 DEF Release, ChannelOK
  <2>3. CASE Pause \/ Resume
    BY <2>3, <1>0 DEF Pause, Resume, ChannelOK
  <2> QED BY <2>1, <2>2, <2>3
<1>4. RetryOK'
  <2>1. RetryOK /\ UNCHANGED failures
    BY <1>0 DEF Retry, Settle, Hold, Release, Pause, Resume, ChannelOK, Channel
  <2>2. CASE Retry \/ Release \/ Pause
    <3>1. retry' = "none"
      BY <2>2 DEF Retry, Release, Pause
    <3> QED BY <2>1, <3>1 DEF RetryOK
  <2>3. CASE Settle \/ Hold
    <3>1. retry' = retry /\ front' = front
      BY <2>3 DEF Settle, Hold, Channel
    <3> QED BY <2>1, <3>1 DEF RetryOK
  <2>4. CASE Resume
    <3>1. retry' = retry /\ front' = TRUE
      BY <2>4 DEF Resume
    <3> QED BY <2>1, <3>1 DEF RetryOK
  <2> QED BY <2>2, <2>3, <2>4
<1>5. ChannelOK'
  BY <1>0, <1>2, <1>3, <1>4 DEF ChannelOK
<1> QED BY <1>0, <1>1, <1>5, ChannelWhole DEF LogOK

LEMMA RestWhole ==
  ASSUME Whole, IInv', Prune \/ UNCHANGED vars
  PROVE  Whole'
<1>0. ChannelOK /\ LogOK /\ trouble \in 0..MaxTrouble /\ seq \in Nat
  BY BoundsAssumption DEF Whole, Shape, IInv, Types
<1>1. UNCHANGED <<seq, pushes, Accepting, cut, Channel, lane, shut>> /\ trouble' \in 0..MaxTrouble
  BY <1>0, TroubleCounts DEF Prune, vars, Edge
<1>2. first' \in 1..seq + 1
  <2>1. CASE Prune
    <3>1. first' \in first + 1 .. seq + 1 /\ first \in 1..seq + 1
      BY <1>0, <2>1 DEF Prune, LogOK
    <3> QED BY <1>0, <3>1
  <2>2. CASE UNCHANGED vars
    BY <1>0, <2>2 DEF vars, Edge, LogOK
  <2> QED BY <2>1, <2>2
<1>3. ChannelOK'
  BY <1>0, <1>1 DEF ChannelOK, RetryOK, Channel
<1> QED BY <1>0, <1>1, <1>2, <1>3, ChannelWhole DEF LogOK

LEMMA NextWhole ==
  ASSUME Whole, [Next]_vars
  PROVE  Whole'
<1>0. IInv'
  BY NextKeeps DEF Whole
<1>1. ASSUME NEW i \in Isolates, NEW n \in Events, Write(i, n) \/ Apply(i, n) PROVE Whole'
  BY <1>1, WriteWhole, ApplyWhole
<1>2. ASSUME NEW l \in Lanes, Reads(l) \/ Fails(l) \/ Dropped(l) PROVE Whole'
  BY <1>0, <1>2, ReadsWhole, FrameWhole, EndsWhole DEF Reads
<1> QED BY <1>0, <1>1, <1>2, AppendWhole, PushWhole, DieWhole, RingsWhole, LifeWhole,
        RestWhole
        DEF Next, Accepts

LEMMA WholeHolds == Spec => []Whole
BY InitWhole, NextWhole, PTL DEF Spec

\* The numbers on the list, in memory and under way are the log's, and the
\* stream the channel knows of is open.
THEOREM EventsTyped == Spec => []TypeOK
BY WholeHolds, WholeTyped, PTL

\* accept() hands a number to its handler at most once, though it comes by the
\* stream and by FCM, in two isolates that share only the list, and the process
\* may die between any two of its steps; unless the list was written back
\* without it, or both read the list before either wrote it.
THEOREM AppliesOnce == Spec => []AppliedOnce
BY WholeHolds, WholeTyped, PTL
=============================================================================

----------------------------- MODULE EdgeEvents -----------------------------
(***************************************************************************)
(* The events of an install: the edge numbers them in a log and sends each *)
(* to the install's streams and through FCM (vtop-edge/src/device.ts); the *)
(* app reads a stream while it is in front, catches up from its cursor     *)
(* when it opens one, and applies each number once, whichever way it came  *)
(* (lib/vtop/edge/edge_events.dart).                                       *)
(*                                                                         *)
(* The app runs in two isolates: in front, pushes go to the one that reads *)
(* the stream, otherwise to another one.  They share what is on disk, the  *)
(* cursor and the list of numbers handled, but not what they have in       *)
(* memory.  Of a connect(), a close and an accept() every await is a place *)
(* where the others go on.                                                 *)
(***************************************************************************)
EXTENDS Naturals, Sequences, FiniteSets

CONSTANTS MaxEvents,   \* appended to the log
          Page,        \* PAGE: the most events a stream starts with
          Lanes,       \* connect() calls and streams at a time, 1..n
          MaxPushes,   \* that FCM does not lose
          MaxTrouble,  \* failures, pauses, deaths and prunings
          Long         \* attempts after which the backoff outlasts a heartbeat

ASSUME BoundsAssumption == /\ MaxEvents \in Nat \ {0} /\ Page \in Nat \ {0}
                           /\ MaxPushes \in Nat /\ MaxTrouble \in Nat
                           /\ Long \in Nat \ {0}
ASSUME LanesAssumption == Lanes \subseteq Nat \ {0}

VARIABLES
  seq, first,  \* the log: the number given last, the oldest not pruned
  pushes,      \* numbers FCM still has, those it has lost included
  \* EdgeEventChannel of the isolate that can be in front:
  front, settled,
  timer,       \* _settle
  retry,       \* _retry: "none", "set", or "again" by a leaked watchdog
  failures,    \* _failures, as far as Long
  connecting,
  stream,      \* _stream, with its _watchdog: a lane, or NoLane
  leaked,      \* a watchdog runs that _watchdog no longer names
  lane,        \* connect() calls under way and streams listened to
  \* accept():
  cursor, listed,  \* on disk
  seen,            \* of each isolate
  task,            \* the accept() of each number in each isolate
  \* History:
  trouble,
  applied,  \* how often each number was handed to its handler
  cut,      \* numbers behind the page of a stream
  lost,     \* numbers whose accept() died when they would not come again
  clashed,  \* numbers the list lost, or that two isolates read it for
  shut      \* a release closed a wanted stream, which nothing opens again

Channel == <<front, settled, timer, retry, failures, connecting, stream, leaked>>
Accepting == <<cursor, listed, seen, task, applied, lost, clashed>>
Edge == <<seq, first, pushes>>

vars == <<Edge, Channel, lane, Accepting, cut, trouble, shut>>

NoLane == 0
Isolates == {"app", "background"}
Events == 1..MaxEvents
Free == [pc |-> "free", after |-> 0, queue |-> << >>]
NoTask == [pc |-> "none", read |-> {}]

\* A lane is a call before and after it found the stream wanted, or a stream.
Lane == [pc: {"free", "checking", "opening", "open"}, after: 0..MaxEvents,
         queue: Seq(Events)]
Task == [pc: {"none", "write", "apply"}, read: SUBSET Events]

TypeOK ==
  /\ seq \in 0..MaxEvents /\ first \in 1..seq + 1
  /\ pushes \subseteq 1..seq
  /\ {front, settled, timer, connecting, leaked, shut} \subseteq BOOLEAN
  /\ lane \in [Lanes -> Lane]
  /\ stream # NoLane => stream \in Lanes /\ lane[stream].pc = "open"
  /\ retry \in {"none", "set", "again"} /\ failures \in 0..Long
  /\ retry # "none" => front
  /\ cursor \in 0..seq /\ listed \subseteq 1..seq
  /\ seen \in [Isolates -> SUBSET (1..seq)]
  /\ task \in [Isolates -> [Events -> Task]]
  /\ \A i \in Isolates, n \in Events : task[i][n] # NoTask => n \in seen[i]
  /\ trouble \in 0..MaxTrouble
  /\ cut \subseteq 1..seq /\ lost \subseteq 1..seq
  /\ clashed \subseteq 1..seq
  /\ applied \in [Events -> 0..2]

Init ==
  /\ seq = 0 /\ first = 1 /\ pushes = {}
  /\ front = FALSE /\ settled = FALSE
  /\ timer = FALSE /\ retry = "none" /\ failures = 0 /\ connecting = FALSE
  /\ stream = NoLane /\ leaked = FALSE /\ shut = FALSE
  /\ lane = [l \in Lanes |-> Free]
  /\ cursor = 0 /\ listed = {}
  /\ seen = [i \in Isolates |-> {}]
  /\ task = [i \in Isolates |-> [n \in Events |-> NoTask]]
  /\ trouble = 0
  /\ cut = {} /\ lost = {} /\ clashed = {}
  /\ applied = [n \in Events |-> 0]

Trouble == trouble < MaxTrouble /\ trouble' = trouble + 1

(***************************************************************************)
(* The edge.                                                               *)
(***************************************************************************)
Numbers(a, b) == [i \in 1..(IF a <= b THEN b - a + 1 ELSE 0) |-> a + i - 1]
Lesser(a, b) == IF a < b THEN a ELSE b
Greater(a, b) == IF a > b THEN a ELSE b

\* Device.append: the storage calls it waits for let no other call in.
AppendEvent ==
  /\ seq < MaxEvents
  /\ seq' = seq + 1
  /\ lane' = [l \in Lanes |->
                IF lane[l].pc = "open"
                THEN [lane[l] EXCEPT !.queue = Append(@, seq + 1)]
                ELSE lane[l]]
  /\ pushes' = pushes \cup {seq + 1}
  /\ UNCHANGED <<first, Channel, Accepting, cut, trouble, shut>>

\* Device.alarm; "first" is past what it deletes.
Prune ==
  /\ Trouble
  /\ first <= seq
  /\ first' \in first + 1 .. seq + 1
  /\ UNCHANGED <<seq, pushes, Channel, lane, Accepting, cut, shut>>

(***************************************************************************)
(* accept(), which for a stream's event also moves the cursor.             *)
(***************************************************************************)
\* Mutant of Begin: a push moves the cursor too.
Advances(i, n, advance) ==
  /\ cursor' = Greater(cursor, n)
  /\ IF n \in seen[i] THEN UNCHANGED <<seen, task>>
     ELSE /\ seen' = [seen EXCEPT ![i] = @ \cup {n}]
          /\ task' = [task EXCEPT ![i][n] = [pc |-> "write", read |-> listed]]

\* Up to where the list is read from disk: a number this isolate has seen goes
\* no further.
Begin(i, n, advance) ==
  /\ cursor' = IF advance THEN Greater(cursor, n) ELSE cursor
  /\ IF n \in seen[i] THEN UNCHANGED <<seen, task>>
     ELSE /\ seen' = [seen EXCEPT ![i] = @ \cup {n}]
          /\ task' = [task EXCEPT ![i][n] = [pc |-> "write", read |-> listed]]

\* Mutant of Known: it is not read from disk again, so it holds what this
\* isolate added, none of which comes this far.
OwnOnly(i, n) == FALSE

Known(i, n) == n \in task[i][n].read

\* The list as it was read is written back with the number added, so what was
\* added to it since is lost.  It never gets too long here.
Write(i, n) ==
  /\ task[i][n].pc = "write"
  /\ IF Known(i, n)
     THEN /\ task' = [task EXCEPT ![i][n] = NoTask]
          /\ UNCHANGED <<listed, clashed>>
     ELSE /\ listed' = task[i][n].read \cup {n}
          /\ task' = [task EXCEPT ![i][n] = [pc |-> "apply", read |-> {}]]
          /\ clashed' = clashed \cup (listed \ listed')
               \cup {m \in {n} : \E j \in Isolates \ {i} : task[j][m].pc = "write"}
  /\ UNCHANGED <<Edge, Channel, lane, cursor, seen, applied, lost, cut, trouble,
                 shut>>

\* The handler, which may fail, is called.
Apply(i, n) ==
  /\ task[i][n].pc = "apply"
  /\ applied' = [applied EXCEPT ![n] = Lesser(@ + 1, 2)]
  /\ task' = [task EXCEPT ![i][n] = NoTask]
  /\ UNCHANGED <<Edge, Channel, lane, cursor, listed, seen, lost, clashed, cut,
                 trouble, shut>>

(***************************************************************************)
(* FCM, which may be late or lose a push: so late that it never comes.     *)
(***************************************************************************)
Push(n) ==
  /\ n \in pushes /\ Cardinality((1..seq) \ pushes) < MaxPushes
  /\ pushes' = pushes \ {n}
  /\ Begin(IF front THEN "app" ELSE "background", n, FALSE)
  /\ UNCHANGED <<seq, first, Channel, lane, listed, applied, lost, clashed, cut,
                 trouble, shut>>

(***************************************************************************)
(* The app's channel.                                                      *)
(***************************************************************************)
\* connect() up to its first await.
Connect ==
  LET free == {l \in Lanes : lane[l].pc = "free"}
  IN IF front' /\ stream = NoLane /\ ~connecting /\ free # {}
     THEN \E l \in free : /\ \A k \in free : l <= k
                          /\ lane' = [lane EXCEPT ![l].pc = "checking"]
     ELSE UNCHANGED lane

\* Whether the stream is wanted: by someone who holds it, because the app has
\* been in front for long, or as alwaysOn finds; which of the others it is does
\* not matter.  None of what Connect checked is checked again.
Wanted(l) ==
  /\ lane[l].pc = "checking"
  /\ \/ /\ connecting' = TRUE
        /\ lane' = [lane EXCEPT ![l].pc = "opening", ![l].after = cursor]
     \/ /\ ~settled
        /\ lane' = [lane EXCEPT ![l] = Free]
        /\ UNCHANGED connecting
  /\ UNCHANGED <<Edge, front, settled, timer, retry, failures, stream, leaked, Accepting,
                 cut, trouble, shut>>

\* The answer of Device.fetch, from when the socket gets what is appended: the
\* page after the cursor that was sent.  Who is no longer in front cancels it.
\* The watchdog of a stream that is open already is not cancelled.
Opened(l) ==
  LET oldest == Greater(lane[l].after + 1, first)
      newest == Lesser(seq, oldest + Page - 1)
      page == Numbers(oldest, newest)
  IN /\ lane[l].pc = "opening"
     /\ connecting' = FALSE
     /\ IF front
        THEN /\ lane' = [lane EXCEPT ![l] = [pc |-> "open", after |-> 0, queue |-> page]]
             /\ stream' = l /\ settled' = TRUE
             /\ leaked' = (leaked \/ stream # NoLane)
             /\ cut' = cut \cup (newest + 1 .. seq)
        ELSE /\ lane' = [lane EXCEPT ![l] = Free]
             /\ UNCHANGED <<stream, settled, leaked, cut>>
     /\ UNCHANGED <<Edge, front, timer, retry, failures, Accepting, trouble, shut>>

\* _scheduleRetry, with no retry pending, after "before" failures.
Schedule(kind, before) ==
  /\ retry' = IF front THEN kind ELSE "none"
  /\ failures' = IF front THEN Lesser(before + 1, Long) ELSE before

\* No answer in time, or a refusal.
Fails(l) ==
  /\ Trouble
  /\ lane[l].pc = "opening"
  /\ lane' = [lane EXCEPT ![l] = Free]
  /\ connecting' = FALSE
  /\ IF retry = "none" THEN Schedule("set", failures) ELSE UNCHANGED <<retry, failures>>
  /\ UNCHANGED <<Edge, front, settled, timer, stream, leaked, Accepting, cut, shut>>

\* A frame of a stream; the app reads streams it no longer knows of, too.
Frame(l) ==
  /\ lane[l].pc = "open" /\ lane[l].queue # << >>
  /\ lane' = [lane EXCEPT ![l].queue = Tail(@)]
  /\ Begin("app", Head(lane[l].queue), TRUE)
  /\ UNCHANGED <<Edge, Channel, listed, applied, lost, clashed, cut, trouble, shut>>

\* Mutant of Close: _stream is not reset.
Cancels(gone) ==
  /\ lane' = [l \in Lanes |-> IF l \in gone \cup {stream} THEN Free ELSE lane[l]]
  /\ UNCHANGED stream

\* _close, with "gone" the lanes that ended.
Close(gone) ==
  /\ lane' = [l \in Lanes |-> IF l \in gone \cup {stream} THEN Free ELSE lane[l]]
  /\ stream' = NoLane

\* Mutant of Dropped: no retry.
DroppedForGood(l) ==
  /\ Trouble
  /\ lane[l].pc = "open"
  /\ Close({l})
  /\ retry' = "none"
  /\ UNCHANGED <<Edge, front, settled, timer, failures, connecting, leaked, Accepting,
                 cut, shut>>

\* _onDropped: a stream ended or stopped beating, after it was up for long
\* enough to count anew, or before.
Dropped(l) ==
  /\ Trouble
  /\ lane[l].pc = "open"
  /\ Close({l})
  /\ \E before \in {failures} \cup (IF stream # NoLane THEN {0} ELSE {}) :
       Schedule("set", before)
  /\ UNCHANGED <<Edge, front, settled, timer, connecting, leaked, Accepting, cut, shut>>

Silent == \A l \in Lanes : lane[l].pc # "open"

\* _checkBeat of a leaked watchdog, when no stream is open that could beat:
\* _onDropped cancels the retry and sets it again.  It runs every heartbeat, so
\* not twice while a retry waits for less than one.
Rings ==
  /\ leaked /\ front /\ Silent
  /\ retry = "again" => failures = Long
  /\ Schedule("again", failures)
  /\ UNCHANGED <<Edge, front, settled, timer, connecting, stream, leaked, lane, Accepting,
                 cut, trouble, shut>>

\* The retry is set again before it is due.
Starved == leaked /\ Silent /\ failures = Long

Retry ==
  /\ retry # "none" /\ retry' = "none"
  /\ UNCHANGED <<front, settled, timer, failures, connecting, stream, leaked>>
  /\ Connect
  /\ UNCHANGED <<Edge, Accepting, cut, trouble, shut>>

Settle ==
  /\ timer /\ timer' = FALSE
  /\ settled' = TRUE
  /\ UNCHANGED <<front, retry, failures, connecting, stream, leaked>>
  /\ Connect
  /\ UNCHANGED <<Edge, Accepting, cut, trouble, shut>>

\* hold(), and connect() after registering.
Hold ==
  /\ UNCHANGED Channel
  /\ Connect
  /\ UNCHANGED <<Edge, Accepting, cut, trouble, shut>>

\* The last holder lets go, and alwaysOn's answer, for which _closeIfUnwanted
\* waits, says the stream is not wanted.  It may be by then.
Release ==
  /\ Trouble
  /\ front
  /\ Close({}) /\ retry' = "none"
  /\ shut' = (settled /\ ~timer)
  /\ UNCHANGED <<Edge, front, settled, timer, failures, connecting, leaked, Accepting, cut>>

\* A leaked watchdog goes on.
Pause ==
  /\ Trouble
  /\ front /\ front' = FALSE
  /\ timer' = FALSE /\ settled' = FALSE /\ retry' = "none"
  /\ Close({})
  /\ UNCHANGED <<Edge, failures, connecting, leaked, Accepting, cut, shut>>

\* onResume, and start() after a launch.
Resume ==
  /\ ~front /\ front' = TRUE
  /\ timer' = TRUE
  /\ shut' = FALSE
  /\ UNCHANGED <<settled, retry, failures, connecting, stream, leaked>>
  /\ Connect
  /\ UNCHANGED <<Edge, Accepting, cut, trouble>>

\* The process dies, both isolates with it.
Die ==
  /\ Trouble
  /\ lost' = lost \cup {n \in Events : \E i \in Isolates :
                          \/ task[i][n].pc = "apply"
                          \/ task[i][n].pc # "none" /\ n <= cursor}
  /\ front' = FALSE /\ settled' = FALSE
  /\ timer' = FALSE /\ retry' = "none" /\ failures' = 0 /\ connecting' = FALSE
  /\ stream' = NoLane /\ leaked' = FALSE
  /\ lane' = [l \in Lanes |-> Free]
  /\ seen' = [i \in Isolates |-> {}]
  /\ task' = [i \in Isolates |-> [n \in Events |-> NoTask]]
  /\ UNCHANGED <<Edge, cursor, listed, applied, clashed, cut, shut>>

Accepts == \E i \in Isolates, n \in Events : Write(i, n) \/ Apply(i, n)
Reads(l) == Wanted(l) \/ Opened(l) \/ Frame(l)

Next ==
  \/ AppendEvent \/ Prune
  \/ \E n \in Events : Push(n)
  \/ Accepts
  \/ \E l \in Lanes : Reads(l) \/ Fails(l) \/ Dropped(l)
  \/ Rings \/ Retry \/ Settle \/ Hold \/ Release
  \/ Pause \/ Resume \/ Die

\* What the app started goes on, and its timers fire, the retry unless it is
\* set again before it is due; the student opens the app again some day.  FCM
\* owes nothing.
Fairness ==
  /\ WF_vars(Accepts)
  /\ \A l \in Lanes : WF_vars(Reads(l))
  /\ WF_vars(Retry /\ ~Starved) /\ WF_vars(Settle) /\ WF_vars(Resume)

Spec == Init /\ [][Next]_vars /\ Fairness

(***************************************************************************)
(* Properties.                                                             *)
(***************************************************************************)
SkipsNone == \A n \in cursor + 1 .. cursor' - 1 : n < first \/ n \in cut

\* "Stream events arrive in order, so they also advance where the next
\* catch-up starts; a push may skip ahead and does not": the cursor never
\* passes an event, though connections end at any frame, the app dies between
\* two, and two streams may be open at once.  Except one that was pruned, or
\* did not fit the page of a stream: the next event of that stream passes it.
NothingSkipped == [][SkipsNone]_cursor

\* "The app applies each number once", although it comes both ways and the
\* isolates share only the list.  Except a number another accept() took off
\* the list by writing it back as it was, and one both isolates read the list
\* for at the same time.
AppliedOnce == \A n \in Events : n \notin clashed => applied[n] <= 1

\* Every event is applied at last, by the stream if FCM loses it, whatever is
\* opened, closed and retried meanwhile: unless it was pruned before, did not
\* fit a page, or the app died with it half accepted, or a release that began
\* before the stream was wanted closed it after, or from then on no stream is
\* open, a watchdog is leaked and the retry always starved by it.
EveryEventApplied ==
  \A n \in Events :
    n <= seq ~> \/ applied[n] > 0 \/ n < first \/ n \in cut \cup lost \/ shut
                \/ []Starved
=============================================================================

------------------------- MODULE SessionSlotsProof --------------------------
(***************************************************************************)
(* No nonce is used twice, for any number of runs, slots, fetches and any  *)
(* block, as long as an exchange fits its block (BlockCovers).             *)
(***************************************************************************)
EXTENDS SessionSlots, TLAPS

LEMMA InitInv == Init => IInv
BY SlotsAssumption, BoundsAssumption
   DEF Init, IInv, TypeOK, KeysKnown, LockHeld, OneFile, OneRunPerSession, BehindRun,
       BehindFile, Reserved, NonceOnce, File, Packet, RunState, Phase, Idle, Busy, Saved

LEMMA StartKeeps == ASSUME IInv, NEW r \in Runs, Start(r) PROVE IInv'
<1> USE SlotsAssumption, BoundsAssumption
<1>0. fetches \in Nat /\ fetches + 1 \in Nat /\ file \in [Slots -> File]
  BY DEF IInv, TypeOK
<1>1. CASE FirstFree = {} /\ run' = [run EXCEPT ![r] = [Idle EXCEPT !.pc = "handshake", !.fetch = fetches + 1]] /\ UNCHANGED holder
  <2>1. TypeOK'
    BY <1>0, <1>1 DEF Start, IInv, TypeOK, RunState, Phase, Idle
  <2>2. \A t \in Runs : Busy(t)' => t /= r /\ Busy(t) /\ run'[t] = run[t]
    BY <1>1 DEF Busy, Idle, IInv, TypeOK
  <2> QED
    BY <1>1, <2>1, <2>2
       DEF Start, IInv, TypeOK, KeysKnown, LockHeld, OneFile, OneRunPerSession, BehindRun,
           BehindFile, Reserved, NonceOnce, Idle, Busy, Saved
<1>2. CASE \E s \in FirstFree, usable \in BOOLEAN :
          /\ usable => file[s] /= NoSession
          /\ holder' = [holder EXCEPT ![s] = r]
          /\ run' = [run EXCEPT ![r] =
               IF usable
                 THEN [Idle EXCEPT !.pc = "reserve", !.slot = s, !.fetch = fetches + 1,
                                   !.key = file[s].key, !.ctr = file[s].next]
                 ELSE [Idle EXCEPT !.pc = "handshake", !.slot = s, !.fetch = fetches + 1]]
  <2> PICK s \in FirstFree, usable \in BOOLEAN :
          /\ usable => file[s] /= NoSession
          /\ holder' = [holder EXCEPT ![s] = r]
          /\ run' = [run EXCEPT ![r] =
               IF usable
                 THEN [Idle EXCEPT !.pc = "reserve", !.slot = s, !.fetch = fetches + 1,
                                   !.key = file[s].key, !.ctr = file[s].next]
                 ELSE [Idle EXCEPT !.pc = "handshake", !.slot = s, !.fetch = fetches + 1]]
    BY <1>2
  <2>0. /\ s \in Slots /\ holder[s] = Nobody
        /\ UNCHANGED <<file, sealed, keys>> /\ run[r].pc = "idle"
        /\ usable => file[s].key \in Nat /\ file[s].next \in Nat
    BY <1>0 DEF FirstFree, Start, File
  <2>1. TypeOK'
    <3>1. holder' \in [Slots -> Runs \cup {Nobody}]
      BY <2>0 DEF IInv, TypeOK
    <3>2. run' \in [Runs -> RunState]
      BY <1>0, <2>0 DEF IInv, TypeOK, RunState, Phase, Idle
    <3> QED BY <1>0, <2>0, <3>1, <3>2 DEF IInv, TypeOK, Start
  <2>2. \A t \in Runs \ {r} : run'[t] = run[t]
    BY DEF IInv, TypeOK
  <2>3. /\ run'[r].pc \in {"reserve", "handshake"} /\ run'[r].slot = s
        /\ Busy(r)' => usable /\ run'[r].key = file[s].key /\ run'[r].ctr = file[s].next
    BY <1>0, <2>0 DEF Idle, Busy, IInv, TypeOK
  <2>4. \A t \in Slots \ {s} : holder'[t] = holder[t]
    BY DEF IInv, TypeOK
  <2>5. holder'[s] = r
    BY <2>0 DEF IInv, TypeOK
  <2>6. \A t \in Runs : Busy(t) => run[t].slot /= s
    <3> SUFFICES ASSUME NEW t \in Runs, Busy(t), run[t].slot = s PROVE FALSE
      OBVIOUS
    <3>1. holder[s] = t
      BY <2>0 DEF IInv, LockHeld, Busy
    <3> QED BY <2>0, <3>1
  <2>7. \A t \in Runs \ {r} : Busy(t)' <=> Busy(t)
    BY <2>2 DEF Busy
  <2>8. \A t \in Slots : Saved(t)' <=> Saved(t)
    BY <2>0 DEF Saved
  <2>9. usable => Saved(s)
    BY DEF Saved
  <2>10. KeysKnown'
    BY <2>0, <2>2, <2>3, <2>7, <2>8, <2>9 DEF IInv, KeysKnown
  <2>11. LockHeld'
    BY <2>0, <2>2, <2>3, <2>4, <2>5 DEF IInv, LockHeld
  <2>12. OneFile'
    BY <2>0, <2>2, <2>3, <2>7, <2>8, <2>9 DEF IInv, OneFile
  <2>13. OneRunPerSession'
    <3> SUFFICES ASSUME NEW t \in Runs \ {r}, Busy(t), usable, run[t].key = file[s].key
                 PROVE  FALSE
      BY <2>2, <2>3, <2>7 DEF IInv, OneRunPerSession
    <3> QED BY <2>0, <2>6, <2>9 DEF IInv, OneFile
  <2>14. BehindRun'
    BY <2>0, <2>2, <2>3, <2>7, <2>9 DEF IInv, BehindRun, BehindFile
  <2>15. BehindFile' /\ NonceOnce'
    BY <2>0, <2>8 DEF IInv, BehindFile, NonceOnce
  <2>16. Reserved'
    BY <2>0, <2>2, <2>3, <2>8 DEF IInv, Reserved
  <2> QED
    BY <2>1, <2>10, <2>11, <2>12, <2>13, <2>14, <2>15, <2>16 DEF IInv
<1> QED BY <1>1, <1>2 DEF Start

(* The end of a fetch, whatever is left in its file: the old content,      *)
(* nothing, or its session with a counter beyond all it sealed.            *)
LEMMA EndKeeps ==
  ASSUME IInv, NEW r \in Runs, run[r].pc /= "idle", Release(r),
         UNCHANGED <<sealed, keys, fetches>>,
         file' \in [Slots -> File],
         \A s \in Slots :
           \/ file'[s] = file[s]
           \/ file'[s] = NoSession
           \/ /\ Busy(r) /\ s = run[r].slot /\ Saved(s)'
              /\ file'[s].key = run[r].key /\ file'[s].next >= run[r].ctr
  PROVE  IInv'
<1> USE SlotsAssumption
<1>1. TypeOK'
  BY BoundsAssumption DEF IInv, TypeOK, Release, Idle, RunState, Phase
<1>2. /\ run'[r] = Idle /\ ~Busy(r)' /\ run'[r].pc = "idle"
      /\ \A t \in Runs \ {r} : run'[t] = run[t] /\ (Busy(t)' <=> Busy(t))
  BY DEF IInv, TypeOK, Release, Idle, Busy
<1>3. \A s \in Slots : holder'[s] = IF holder[s] = r THEN Nobody ELSE holder[s]
  BY DEF Release
<1>4. /\ \A t \in Runs : run[t].ctr \in Nat /\ run[t].end \in Nat /\ run[t].key \in Nat
      /\ \A p \in sealed : p.ctr \in Nat
      /\ \A s \in Slots : Saved(s)' => file'[s].next \in Nat
  BY DEF IInv, TypeOK, RunState, Packet, File, Saved
<1>5. \A s \in Slots : Saved(s)' =>
        \/ Saved(s) /\ file'[s] = file[s]
        \/ Busy(r) /\ s = run[r].slot /\ file'[s].key = run[r].key /\ file'[s].next >= run[r].ctr
  BY DEF Saved
<1>6. KeysKnown'
  BY <1>2, <1>5 DEF IInv, KeysKnown
<1>7. LockHeld'
  BY <1>2, <1>3 DEF IInv, LockHeld
<1>8. OneFile'
  BY <1>2, <1>5 DEF IInv, OneFile, OneRunPerSession
<1>9. OneRunPerSession' /\ BehindRun' /\ NonceOnce'
  BY <1>2 DEF IInv, OneRunPerSession, BehindRun, NonceOnce
<1>10. BehindFile'
  <2> SUFFICES ASSUME NEW s \in Slots, NEW p \in sealed, Saved(s)', p.key = file'[s].key
               PROVE  p.ctr < file'[s].next
    BY DEF BehindFile
  <2>1. CASE Saved(s) /\ file'[s] = file[s]
    BY <2>1 DEF IInv, BehindFile
  <2>2. CASE Busy(r) /\ file'[s].key = run[r].key /\ file'[s].next >= run[r].ctr
    <3>1. p.ctr < run[r].ctr
      BY <2>2 DEF IInv, BehindRun
    <3> QED BY <1>4, <2>2, <3>1
  <2> QED BY <1>5, <2>1, <2>2
<1>11. Reserved'
  <2> SUFFICES ASSUME NEW t \in Runs \ {r}, run[t].pc \in {"exchange", "save"}
               PROVE  /\ run[t].ctr <= run[t].end
                      /\ \A s \in Slots : Saved(s)' /\ file'[s].key = run[t].key
                                            => run[t].end <= file'[s].next
    BY <1>2 DEF Reserved
  <2>1. Busy(t)
    BY DEF Busy
  <2> QED BY <1>5, <2>1 DEF IInv, Reserved, OneRunPerSession
<1> QED BY <1>1, <1>6, <1>7, <1>8, <1>9, <1>10, <1>11 DEF IInv

LEMMA ReserveFailsKeeps == ASSUME IInv, NEW r \in Runs, ReserveFails(r) PROVE IInv'
<1> USE SlotsAssumption, BoundsAssumption
<1> DEFINE saved == [key |-> run[r].key, next |-> run[r].ctr + Block]
<1>1. PICK f \in Torn(run[r].slot, saved) : file' = [file EXCEPT ![run[r].slot] = f]
  BY DEF ReserveFails
<1>2. /\ run[r].slot \in Slots /\ run[r].pc = "reserve" /\ Busy(r) /\ Release(r)
      /\ UNCHANGED <<sealed, keys, fetches>>
  BY DEF ReserveFails, Busy
<1>3. run[r].key \in Nat /\ run[r].ctr \in Nat /\ file \in [Slots -> File]
  BY DEF IInv, TypeOK, RunState
<1>4. /\ saved \in File /\ saved /= NoSession
      /\ saved.key = run[r].key /\ saved.next >= run[r].ctr
  BY <1>3 DEF File
<1> HIDE DEF saved
<1>5. f \in {file[run[r].slot], NoSession, saved}
  BY DEF Torn
<1>6. file' \in [Slots -> File]
  BY <1>1, <1>2, <1>3, <1>4, <1>5 DEF File
<1>7. \A s \in Slots : IF s = run[r].slot THEN file'[s] = f ELSE file'[s] = file[s]
  BY <1>1, <1>3
<1> QED BY <1>2, <1>4, <1>5, <1>6, <1>7, EndKeeps DEF Saved

LEMMA SaveKeeps == ASSUME IInv, NEW r \in Runs, Save(r) PROVE IInv'
<1> USE SlotsAssumption, BoundsAssumption
<1> DEFINE next == IF run[r].ctr > run[r].end THEN run[r].ctr ELSE run[r].end
           saved == [key |-> run[r].key, next |-> next]
<1>2. /\ run[r].pc = "save" /\ Busy(r) /\ Release(r)
      /\ UNCHANGED <<sealed, keys, fetches>>
  BY DEF Save, Busy
<1>3. /\ run[r].key \in Nat /\ run[r].ctr \in Nat /\ run[r].end \in Nat
      /\ file \in [Slots -> File] /\ run[r].slot \in Slots \cup {NoSlot}
  BY DEF IInv, TypeOK, RunState
<1>4. /\ saved \in File /\ saved /= NoSession
      /\ saved.key = run[r].key /\ saved.next >= run[r].ctr
  BY <1>3 DEF File
<1>a. CASE run[r].slot = NoSlot
  BY <1>2, <1>3, <1>a, EndKeeps DEF Save
<1>b. CASE run[r].slot \in Slots
  <2>1. PICK f \in Torn(run[r].slot, saved) : file' = [file EXCEPT ![run[r].slot] = f]
    BY <1>b DEF Save
  <2> HIDE DEF saved
  <2>5. f \in {file[run[r].slot], NoSession, saved}
    BY DEF Torn
  <2>6. file' \in [Slots -> File]
    BY <2>1, <1>b, <1>3, <1>4, <2>5 DEF File
  <2>7. \A s \in Slots : IF s = run[r].slot THEN file'[s] = f ELSE file'[s] = file[s]
    BY <2>1, <1>3
  <2> QED BY <1>2, <1>4, <1>b, <2>5, <2>6, <2>7, EndKeeps DEF Saved
<1> QED BY <1>3, <1>a, <1>b

LEMMA AbandonKeeps == ASSUME IInv, NEW r \in Runs, Abandon(r) PROVE IInv'
<1>1. file' \in [Slots -> File] /\ file' = file /\ run[r].pc /= "idle"
  BY DEF Abandon, IInv, TypeOK
<1> QED BY <1>1, EndKeeps DEF Abandon

LEMMA ReserveKeeps == ASSUME IInv, NEW r \in Runs, Reserve(r) PROVE IInv'
<1> USE SlotsAssumption, BoundsAssumption
<1> DEFINE end == run[r].ctr + Block
           saved == [key |-> run[r].key, next |-> end]
<1>1. /\ run[r].pc = "reserve" /\ Busy(r)
      /\ run' = [run EXCEPT ![r].pc = "exchange", ![r].end = end, ![r].resettable = TRUE]
      /\ UNCHANGED <<holder, sealed, keys, fetches>>
  BY DEF Reserve, Busy
<1>2. /\ run[r].key \in Nat /\ run[r].ctr \in Nat /\ end \in Nat /\ run[r].ctr <= end
      /\ file \in [Slots -> File] /\ run[r].slot \in Slots \cup {NoSlot}
      /\ \A p \in sealed : p.ctr \in Nat
  BY DEF IInv, TypeOK, RunState, Packet
<1>3. saved \in File /\ saved /= NoSession /\ saved.key = run[r].key /\ saved.next = end
  BY <1>2 DEF File
<1>4. \A s \in Slots : IF s = run[r].slot THEN file'[s] = saved ELSE file'[s] = file[s]
  BY <1>2 DEF Reserve
<1>5. file' \in [Slots -> File]
  BY <1>2, <1>3 DEF Reserve
<1> HIDE DEF saved
<1>6. /\ run'[r].pc = "exchange" /\ run'[r].end = end /\ run'[r].ctr = run[r].ctr
      /\ run'[r].key = run[r].key /\ run'[r].slot = run[r].slot
      /\ \A t \in Runs \ {r} : run'[t] = run[t]
  BY <1>1, <1>2 DEF IInv, TypeOK, RunState
<1>7. \A t \in Runs : (Busy(t)' <=> Busy(t)) /\ run'[t].key = run[t].key
                      /\ run'[t].slot = run[t].slot /\ run'[t].ctr = run[t].ctr
  BY <1>1, <1>6 DEF Busy
<1>8. TypeOK'
  <2>1. run' \in [Runs -> RunState]
    <3> DEFINE new == [run[r] EXCEPT !.pc = "exchange", !.end = end, !.resettable = TRUE]
    <3>1. end \in Nat
      BY <1>2
    <3>2. run[r] \in RunState /\ run \in [Runs -> RunState]
      BY DEF IInv, TypeOK
    <3>3. run' = [run EXCEPT ![r] = new]
      BY <1>1, <3>2
    <3> HIDE DEF end
    <3>4. new \in RunState
      BY <3>1, <3>2 DEF RunState, Phase
    <3> QED BY <3>2, <3>3, <3>4
  <2> QED BY <1>1, <1>5, <2>1 DEF IInv, TypeOK
<1>9. \A s \in Slots : Saved(s)' <=> Saved(s) \/ s = run[r].slot
  BY <1>3, <1>4 DEF Saved
<1>10. KeysKnown'
  BY <1>1, <1>3, <1>4, <1>7, <1>9 DEF IInv, KeysKnown
<1>11. LockHeld'
  BY <1>1, <1>6, <1>7 DEF IInv, LockHeld
<1>12. OneFile'
  <2>1. \A s, t \in Slots : Saved(s)' /\ Saved(t)' /\ file'[s].key = file'[t].key => s = t
    <3> SUFFICES ASSUME NEW s \in Slots, NEW t \in Slots, s /= t, s /= run[r].slot,
                        Saved(s)', Saved(t)', file'[s].key = file'[t].key
                 PROVE  FALSE
      OBVIOUS
    <3>1. Saved(s) /\ file'[s] = file[s]
      BY <1>4, <1>9
    <3>2. CASE t = run[r].slot
      BY <1>1, <1>3, <1>4, <3>1, <3>2 DEF IInv, OneFile
    <3>3. CASE t /= run[r].slot
      BY <1>4, <1>9, <3>1, <3>3 DEF IInv, OneFile
    <3> QED BY <3>2, <3>3
  <2>2. ASSUME NEW t \in Runs, NEW s \in Slots, Busy(t), Saved(s)', file'[s].key = run[t].key
        PROVE  run[t].slot = s
    <3>1. CASE s = run[r].slot
      BY <1>1, <1>3, <1>4, <2>2, <3>1 DEF IInv, OneRunPerSession
    <3>2. CASE s /= run[r].slot
      BY <1>4, <1>9, <2>2, <3>2 DEF IInv, OneFile
    <3> QED BY <3>1, <3>2
  <2> QED BY <1>7, <2>1, <2>2 DEF OneFile
<1>13. OneRunPerSession' /\ BehindRun' /\ NonceOnce'
  BY <1>1, <1>7 DEF IInv, OneRunPerSession, BehindRun, NonceOnce
<1>14. BehindFile'
  <2> SUFFICES ASSUME NEW s \in Slots, NEW p \in sealed, Saved(s)', p.key = file'[s].key
               PROVE  p.ctr < file'[s].next
    BY <1>1 DEF BehindFile
  <2>1. CASE s = run[r].slot
    <3>1. p.ctr < run[r].ctr
      BY <1>1, <1>3, <1>4, <2>1 DEF IInv, BehindRun
    <3> QED BY <1>2, <1>3, <1>4, <2>1, <3>1
  <2>2. CASE s /= run[r].slot
    BY <1>4, <1>9, <2>2 DEF IInv, BehindFile
  <2> QED BY <2>1, <2>2
<1>15. Reserved'
  <2> SUFFICES ASSUME NEW t \in Runs, run'[t].pc \in {"exchange", "save"}
               PROVE  /\ run'[t].ctr <= run'[t].end
                      /\ \A s \in Slots : Saved(s)' /\ file'[s].key = run'[t].key
                                            => run'[t].end <= file'[s].next
    BY DEF Reserved
  <2>1. CASE t = r
    <3>1. \A s \in Slots : Saved(s)' /\ file'[s].key = run[r].key => s = run[r].slot
      BY <1>1, <1>4, <1>9 DEF IInv, OneFile
    <3>2. \A s \in Slots : s = run[r].slot => file'[s].next = end
      BY <1>3, <1>4
    <3> HIDE DEF end
    <3> QED BY <1>2, <1>6, <2>1, <3>1, <3>2
  <2>2. CASE t /= r
    <3>1. Busy(t) /\ run[t].pc \in {"exchange", "save"} /\ run'[t] = run[t]
      BY <1>6, <2>2 DEF Busy
    <3>2. \A s \in Slots : file'[s].key = run[t].key => s /= run[r].slot
      BY <1>1, <1>3, <1>4, <2>2, <3>1 DEF IInv, OneRunPerSession
    <3> QED BY <1>4, <1>9, <3>1, <3>2 DEF IInv, Reserved
  <2> QED BY <2>1, <2>2
<1> QED BY <1>8, <1>10, <1>11, <1>12, <1>13, <1>14, <1>15 DEF IInv

LEMMA HandshakeKeeps == ASSUME IInv, NEW r \in Runs, Handshake(r) PROVE IInv'
<1> USE BoundsAssumption
<1>1. PICK b \in BOOLEAN :
        run' = [run EXCEPT ![r].pc = IF b THEN "exchange" ELSE "reserve",
                           ![r].key = keys + 1, ![r].ctr = 0, ![r].end = Block,
                           ![r].resettable = FALSE]
  BY DEF Handshake
<1>2. keys' = keys + 1 /\ UNCHANGED <<file, holder, sealed, fetches>> /\ run[r].pc = "handshake"
  BY DEF Handshake
<1>3. /\ run'[r].pc \in {"exchange", "reserve"} /\ run'[r].key = keys + 1 /\ run'[r].ctr = 0
      /\ run'[r].end = Block /\ run'[r].slot = run[r].slot /\ Busy(r)'
      /\ \A t \in Runs \ {r} : run'[t] = run[t] /\ (Busy(t)' <=> Busy(t))
  BY <1>1 DEF IInv, TypeOK, RunState, Busy
<1>4. /\ keys \in Nat
      /\ \A p \in sealed : p.key \in Nat /\ p.ctr \in Nat
      /\ \A s \in Slots : Saved(s) => file[s].key \in Nat
      /\ \A t \in Runs : run[t].key \in Nat
  BY DEF IInv, TypeOK, RunState, Packet, File, Saved
<1>5. TypeOK'
  <2> DEFINE pc == IF b THEN "exchange" ELSE "reserve"
             new == [run[r] EXCEPT !.pc = pc, !.key = keys + 1, !.ctr = 0, !.end = Block,
                                   !.resettable = FALSE]
  <2>0. pc \in Phase
    BY DEF Phase
  <2>1. run[r] \in RunState /\ run \in [Runs -> RunState] /\ keys + 1 \in Nat
    BY <1>4 DEF IInv, TypeOK
  <2>2. run' = [run EXCEPT ![r] = new]
    BY <1>1, <2>1
  <2> HIDE DEF pc
  <2>3. new \in RunState
    BY <2>0, <2>1 DEF RunState
  <2>4. run' \in [Runs -> RunState]
    BY <2>1, <2>2, <2>3
  <2> QED BY <1>2, <2>1, <2>4 DEF IInv, TypeOK
<1>6. \A s \in Slots : Saved(s)' <=> Saved(s)
  BY <1>2 DEF Saved
<1>7. /\ \A p \in sealed : p.key /= keys + 1
      /\ \A s \in Slots : Saved(s) => file[s].key /= keys + 1
      /\ \A t \in Runs : Busy(t) => run[t].key /= keys + 1
  BY <1>4 DEF IInv, KeysKnown
<1>8. KeysKnown'
  BY <1>2, <1>3, <1>4, <1>6 DEF IInv, KeysKnown
<1>9. LockHeld'
  BY <1>2, <1>3 DEF IInv, LockHeld
<1>10. OneFile' /\ OneRunPerSession' /\ BehindRun' /\ BehindFile' /\ NonceOnce'
  BY <1>2, <1>3, <1>6, <1>7
     DEF IInv, OneFile, OneRunPerSession, BehindRun, BehindFile, NonceOnce
<1>11. Reserved'
  BY <1>2, <1>3, <1>6, <1>7 DEF IInv, Reserved
<1> QED BY <1>5, <1>8, <1>9, <1>10, <1>11 DEF IInv

LEMMA SealKeeps == ASSUME IInv, BlockCovers, NEW r \in Runs, Seal(r) PROVE IInv'
<1> USE BoundsAssumption
<1> DEFINE new == [key |-> run[r].key, ctr |-> run[r].ctr, fetch |-> run[r].fetch, nth |-> run[r].nth]
<1>1. /\ run[r].pc = "exchange" /\ Busy(r)
      /\ run[r].ctr + Block < run[r].end + MaxPackets
      /\ sealed' = sealed \cup {new}
      /\ run' = [run EXCEPT ![r].ctr = run[r].ctr + 1, ![r].nth = run[r].nth + 1]
      /\ UNCHANGED <<file, holder, keys, fetches>>
  BY DEF Seal, Busy
<1>2. /\ run[r].key \in Nat /\ run[r].ctr \in Nat /\ run[r].end \in Nat
      /\ run[r].fetch \in Nat /\ run[r].nth \in Nat
      /\ \A p \in sealed : p.ctr \in Nat
      /\ \A s \in Slots : Saved(s) => file[s].next \in Nat
  BY DEF IInv, TypeOK, RunState, Packet, File, Saved
<1>3. new \in Packet /\ new.key = run[r].key /\ new.ctr = run[r].ctr
  BY <1>2 DEF Packet
<1> HIDE DEF new
<1>4. run[r].ctr < run[r].end /\ run[r].ctr + 1 <= run[r].end
  BY <1>1, <1>2 DEF BlockCovers
<1>5. /\ run'[r].ctr = run[r].ctr + 1 /\ run'[r].pc = run[r].pc /\ run'[r].key = run[r].key
      /\ run'[r].slot = run[r].slot /\ run'[r].end = run[r].end
      /\ \A t \in Runs \ {r} : run'[t] = run[t]
      /\ \A t \in Runs : Busy(t)' <=> Busy(t)
  BY <1>1 DEF IInv, TypeOK, RunState, Busy
<1>6. TypeOK'
  BY <1>1, <1>2, <1>3 DEF IInv, TypeOK, RunState
<1>7. \A s \in Slots : Saved(s)' <=> Saved(s)
  BY <1>1 DEF Saved
<1>a. \A t \in Runs : run'[t].key = run[t].key /\ run'[t].slot = run[t].slot
                       /\ run'[t].pc = run[t].pc
  BY <1>5
<1>8. KeysKnown'
  BY <1>1, <1>3, <1>5, <1>7, <1>a DEF IInv, KeysKnown
<1>b. LockHeld'
  BY <1>1, <1>a DEF IInv, LockHeld
<1>c. OneFile'
  <2>1. file' = file
    BY <1>1
  <2>2. \A s, t \in Slots : Saved(s)' /\ Saved(t)' /\ file'[s].key = file'[t].key => s = t
    BY <1>7, <2>1 DEF IInv, OneFile
  <2>3. \A t \in Runs, s \in Slots :
          Busy(t)' /\ Saved(s)' /\ file'[s].key = run'[t].key => run'[t].slot = s
    BY <1>5, <1>7, <1>a, <2>1 DEF IInv, OneFile
  <2> QED BY <2>2, <2>3 DEF OneFile
<1>d. OneRunPerSession'
  BY <1>5, <1>a DEF IInv, OneRunPerSession
<1>9. BehindRun'
  <2> SUFFICES ASSUME NEW t \in Runs, NEW p \in sealed', Busy(t), p.key = run[t].key
               PROVE  p.ctr < run'[t].ctr
    BY <1>5, <1>a DEF BehindRun
  <2>1. CASE p \in sealed
    <3>1. p.ctr < run[t].ctr
      BY <2>1 DEF IInv, BehindRun
    <3>2. CASE t = r
      BY <1>2, <1>5, <2>1, <3>1, <3>2
    <3> QED BY <1>5, <3>1, <3>2
  <2>2. CASE p = new
    <3>1. t = r
      BY <1>1, <1>3, <2>2 DEF IInv, OneRunPerSession
    <3> QED BY <1>2, <1>3, <1>5, <2>2, <3>1
  <2> QED BY <1>1, <2>1, <2>2
<1>10. BehindFile'
  BY <1>1, <1>2, <1>3, <1>4, <1>7 DEF IInv, BehindFile, Reserved
<1>11. Reserved'
  BY <1>1, <1>4, <1>5, <1>7 DEF IInv, Reserved
<1>12. NonceOnce'
  <2>1. \A p \in sealed : ~(p.key = new.key /\ p.ctr = new.ctr)
    BY <1>1, <1>2, <1>3 DEF IInv, BehindRun
  <2> QED BY <1>1, <2>1 DEF IInv, NonceOnce
<1> QED BY <1>6, <1>8, <1>b, <1>c, <1>d, <1>9, <1>10, <1>11, <1>12 DEF IInv

LEMMA ResetKeeps == ASSUME IInv, NEW r \in Runs, Reset(r) PROVE IInv'
<1>1. CASE run[r].again
  <2>1. /\ file' \in [Slots -> File] /\ file' = file /\ run[r].pc /= "idle"
        /\ Release(r) /\ UNCHANGED <<sealed, keys, fetches>>
    BY <1>1 DEF Reset, IInv, TypeOK
  <2> QED BY <2>1, EndKeeps
<1>2. CASE ~run[r].again
  <2>1. /\ run' = [run EXCEPT ![r].pc = "handshake", ![r].again = TRUE]
        /\ UNCHANGED <<file, holder, sealed, keys, fetches>> /\ run[r].pc = "exchange"
    BY <1>2 DEF Reset
  <2>2. /\ run'[r].pc = "handshake" /\ run'[r].slot = run[r].slot /\ ~Busy(r)'
        /\ \A t \in Runs \ {r} : run'[t] = run[t] /\ (Busy(t)' <=> Busy(t))
    BY <2>1 DEF IInv, TypeOK, RunState, Busy
  <2>3. TypeOK'
    BY <2>1 DEF IInv, TypeOK, RunState, Phase
  <2>4. \A t \in Runs : Busy(t)' => t /= r /\ Busy(t) /\ run'[t] = run[t]
    BY <2>2
  <2>5. KeysKnown'
    BY <2>1, <2>4 DEF IInv, KeysKnown, Saved
  <2>9. OneFile'
    BY <2>1, <2>4 DEF IInv, OneFile, Saved
  <2>10. OneRunPerSession'
    BY <2>4 DEF IInv, OneRunPerSession
  <2>6. LockHeld'
    BY <2>1, <2>2 DEF IInv, LockHeld
  <2>7. BehindRun' /\ BehindFile' /\ NonceOnce'
    BY <2>1, <2>4 DEF IInv, BehindRun, BehindFile, NonceOnce, Saved
  <2>8. Reserved'
    BY <2>1, <2>2 DEF IInv, Reserved, Saved
  <2> QED BY <2>3, <2>5, <2>6, <2>7, <2>8, <2>9, <2>10 DEF IInv
<1> QED BY <1>1, <1>2

LEMMA FinishKeeps == ASSUME IInv, NEW r \in Runs, Finish(r) PROVE IInv'
<1>1. /\ run' = [run EXCEPT ![r].pc = "save"] /\ run[r].pc = "exchange"
      /\ UNCHANGED <<file, holder, sealed, keys, fetches>>
  BY DEF Finish
<1>2. /\ run'[r].pc = "save" /\ run'[r].slot = run[r].slot /\ run'[r].key = run[r].key
      /\ run'[r].ctr = run[r].ctr /\ run'[r].end = run[r].end
      /\ \A t \in Runs \ {r} : run'[t] = run[t]
      /\ \A t \in Runs : Busy(t)' <=> Busy(t)
  BY <1>1 DEF IInv, TypeOK, RunState, Busy
<1>3. TypeOK'
  BY <1>1 DEF IInv, TypeOK, RunState, Phase
<1> QED
  BY <1>1, <1>2, <1>3
     DEF IInv, KeysKnown, LockHeld, OneFile, OneRunPerSession, BehindRun, BehindFile,
         Reserved, NonceOnce, Saved

LEMMA StepKeeps == ASSUME IInv, BlockCovers, [Next]_vars PROVE IInv'
<1>1. CASE Next
  BY <1>1, StartKeeps, ReserveKeeps, ReserveFailsKeeps, HandshakeKeeps, SealKeeps, ResetKeeps,
     FinishKeeps, SaveKeeps, AbandonKeeps DEF Next
<1>2. CASE UNCHANGED vars
  BY <1>2 DEF vars, IInv, TypeOK, KeysKnown, LockHeld, OneFile, OneRunPerSession, BehindRun,
              BehindFile, Reserved, NonceOnce, Busy, Saved
<1> QED BY <1>1, <1>2

LEMMA Inductive == ASSUME BlockCovers PROVE Spec => []IInv
<1>1. IInv /\ [Next]_vars => IInv'
  BY StepKeeps
<1> QED BY InitInv, <1>1, PTL DEF Spec

(* The states of the client are what their types say.                      *)
THEOREM TypeCorrect == ASSUME BlockCovers PROVE Spec => []TypeOK
<1>1. IInv => TypeOK
  BY DEF IInv
<1> QED BY Inductive, <1>1, PTL

(* No nonce is used for two packets, however many isolates fetch, crash    *)
(* and tear their session files.                                           *)
THEOREM NoNonceReuse == ASSUME BlockCovers PROVE Spec => []NonceOnce
<1>1. IInv => NonceOnce
  BY DEF IInv
<1> QED BY Inductive, <1>1, PTL

(* No two fetches work on one session.                                     *)
THEOREM SessionsNotShared == ASSUME BlockCovers PROVE Spec => []OneRunPerSession
<1>1. IInv => OneRunPerSession
  BY DEF IInv
<1> QED BY Inductive, <1>1, PTL
=============================================================================

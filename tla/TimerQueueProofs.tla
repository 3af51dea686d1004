--------------------------- MODULE TimerQueueProofs ---------------------------
(***************************************************************************)
(* Theorems of TimerQueue, for any delays, any number of keys and whatever *)
(* the bounds of the model are.                                            *)
(***************************************************************************)
EXTENDS TimerQueue, SequenceTheorems, TLAPS

\* A key given out is one: 0 is skipped when the counter wraps.
LEMMA NewKeyIsKey == TypeOK => NewKey \in Keys
<1> SUFFICES ASSUME TypeOK PROVE NewKey \in Keys
  OBVIOUS
<1>1. mTimerKey \in 0..KeyMod - 1 /\ KeyMod \in Nat /\ KeyMod > 1
  BY TimerAssumption DEF TypeOK
<1>2. (mTimerKey + 1) % KeyMod \in 0..KeyMod - 1
  BY <1>1
<1> QED BY <1>1, <1>2 DEF NewKey, Keys

\* The keys of the timeouts in a queue, when one message is added at the end and
\* when the first is taken.
LEMMA KeysAppend ==
    ASSUME NEW s \in Seq(Rx), NEW m \in Rx
    PROVE  KeysIn(Append(s, m)) = KeysIn(s) \cup KeysIn(<<m>>)
<1>1. /\ Len(Append(s, m)) = Len(s) + 1
      /\ \A i \in 1..Len(s) : Append(s, m)[i] = s[i]
      /\ Append(s, m)[Len(s) + 1] = m
      /\ DOMAIN s = 1..Len(s) /\ DOMAIN Append(s, m) = 1..Len(s) + 1
      /\ Len(s) \in Nat
  BY AppendProperties
<1>2. DOMAIN <<m>> = {1} /\ <<m>>[1] = m
  OBVIOUS
<1> HIDE DEF Rx
<1>3. \A i \in 1..Len(s) + 1 : i \in 1..Len(s) \/ i = Len(s) + 1
  BY <1>1
<1>4. KeysIn(Append(s, m)) \subseteq KeysIn(s) \cup KeysIn(<<m>>)
  BY <1>1, <1>2, <1>3 DEF KeysIn
<1>5. KeysIn(s) \subseteq KeysIn(Append(s, m))
  BY <1>1 DEF KeysIn
<1>6. KeysIn(<<m>>) \subseteq KeysIn(Append(s, m))
  BY <1>1, <1>2 DEF KeysIn
<1> QED BY <1>4, <1>5, <1>6

\* The keys in a queue of receipts, without its first.
LEMMA KeysTail ==
    ASSUME NEW s \in Seq(Rx), s # <<>>
    PROVE  KeysIn(s) = KeysIn(<<Head(s)>>) \cup KeysIn(Tail(s))
<1>1. /\ Len(s) \in Nat /\ Len(s) # 0
      /\ DOMAIN s = 1..Len(s) /\ DOMAIN Tail(s) = 1..Len(s) - 1
      /\ \A i \in 1..Len(s) - 1 : Tail(s)[i] = s[i + 1]
      /\ Head(s) = s[1]
  BY HeadTailProperties, EmptySeq
<1>2. DOMAIN <<Head(s)>> = {1} /\ <<Head(s)>>[1] = s[1]
  BY <1>1
<1>3. ASSUME NEW i \in DOMAIN s, s[i].kind = "timeout"
      PROVE  s[i].key \in KeysIn(<<Head(s)>>) \cup KeysIn(Tail(s))
  <2>1. CASE i = 1
    BY <1>2, <1>3, <2>1 DEF KeysIn
  <2>2. CASE i # 1
    <3>1. i - 1 \in DOMAIN Tail(s) /\ Tail(s)[i - 1] = s[i]
      BY <1>1, <2>2
    <3> QED BY <1>3, <3>1 DEF KeysIn
  <2> QED BY <2>1, <2>2
<1>4. KeysIn(s) \subseteq KeysIn(<<Head(s)>>) \cup KeysIn(Tail(s))
  BY <1>3 DEF KeysIn
<1>5. KeysIn(<<Head(s)>>) \subseteq KeysIn(s)
  BY <1>1, <1>2 DEF KeysIn
<1>6. KeysIn(Tail(s)) \subseteq KeysIn(s)
  <2>1. \A i \in DOMAIN Tail(s) : i + 1 \in DOMAIN s /\ Tail(s)[i] = s[i + 1]
    BY <1>1
  <2> QED BY <2>1 DEF KeysIn
<1> QED BY <1>4, <1>5, <1>6

-----------------------------------------------------------------------------
\* The shape of the state.
THEOREM TypeCorrect == Spec => []TypeOK
<1>1. Init => TypeOK
  BY TimerAssumption DEF Init, TypeOK, Rx, Keys, Other
<1>2. TypeOK /\ [Next]_vars => TypeOK'
  <2> SUFFICES ASSUME TypeOK, [Next]_vars PROVE TypeOK'
    OBVIOUS
  <2> USE DEF TypeOK
  <2>1. ASSUME NEW d \in Delays, SetTimer(d) PROVE TypeOK'
    <3>1. NewKey \in Keys /\ now + d \in Nat
      BY NewKeyIsKey, TimerAssumption
    <3>2. NewKey \in 0..KeyMod - 1
      BY <3>1, TimerAssumption DEF Keys
    <3> QED BY <2>1, <3>1, <3>2 DEF SetTimer, loop
  <2>2. ASSUME NEW k \in Keys, DelTimer(k) PROVE TypeOK'
    BY <2>2 DEF DelTimer, loop
  <2>3. CASE Done
    BY <2>3 DEF Done, timers, Rx
  <2>4. CASE Process \/ Scanned \/ TimedOut
    BY <2>4 DEF Process, Scanned, TimedOut, timers, history
  <2>5. ASSUME NEW t \in mTimers, Pop(t) PROVE TypeOK'
    <3>1. TimeOutOf(t) \in Rx
      BY DEF Rx, TimeOutMsgs, TimeOutOf
    <3>2. Append(rx, TimeOutOf(t)) \in Seq(Rx)
      BY <3>1, AppendProperties
    <3>3. rx' \in Seq(Rx) /\ mTimerStoped' \subseteq Keys /\ alive' \subseteq Keys
      BY <2>5, <3>2 DEF Pop, ProcessTimer
    <3> QED BY <2>5, <3>3 DEF Pop, loop
  <2>6. CASE MsTillNextTimer
    <3>1. limit' \in 0..StepMax
      <4>1. CASE mTimers = {} /\ limit' = StepMax
        BY <4>1, TimerAssumption
      <4>2. ASSUME NEW t \in mTimers, limit' = Capped(TillNext(t))
            PROVE  limit' \in 0..StepMax
        BY <4>2, TimerAssumption DEF Capped, TillNext
      <4> QED BY <2>6, <4>1, <4>2 DEF MsTillNextTimer
    <3> QED BY <2>6, <3>1 DEF MsTillNextTimer, timers, history
  <2>7. CASE GetNext
    <3>1. deadline' \in Nat \cup {Never}
      BY <2>7, TimerAssumption DEF GetNext
    <3> QED BY <2>7, <3>1 DEF GetNext, timers, history
  <2>8. CASE Receive
    <3>1. Head(rx) \in Rx /\ Tail(rx) \in Seq(Rx)
      BY <2>8, HeadTailProperties DEF Receive
    <3> QED BY <2>8, <3>1 DEF Receive, timers, history
  <2>9. CASE Arrive
    <3>1. Append(rx, Other) \in Seq(Rx)
      BY DEF Rx
    <3> QED BY <2>9, <3>1 DEF Arrive, timers, loop, history
  <2>10. CASE Tick
    BY <2>10 DEF Tick, timers, loop, history
  <2>11. CASE UNCHANGED vars
    BY <2>11 DEF vars, timers, loop, history
  <2> QED
    BY <2>1, <2>2, <2>3, <2>4, <2>5, <2>6, <2>7, <2>8, <2>9, <2>10, <2>11
       DEF Next, Step
<1> QED
  BY <1>1, <1>2, PTL DEF Spec

-----------------------------------------------------------------------------
\* Timeouts leave in the order they fall due and not early, although the clock
\* runs between its readings and handlers set timers meanwhile.
OrderInv == HeapIsLater /\ TimeoutsInOrder

\* Timeouts are queued in the order they fall due and never before they do.
THEOREM Order == Spec => []TimeoutsInOrder
<1>1. Init => OrderInv
  BY DEF Init, OrderInv, HeapIsLater, TimeoutsInOrder
<1>2. TypeOK /\ OrderInv /\ [Next]_vars => OrderInv'
  <2> SUFFICES ASSUME TypeOK, OrderInv, [Next]_vars PROVE OrderInv'
    OBVIOUS
  <2> USE DEF OrderInv
  <2>a. rx \in Seq(Rx) /\ now \in Nat /\ sampled \in Nat
        /\ \A t \in mTimers : t.when \in Nat
    BY DEF TypeOK
  <2>b. \A i \in DOMAIN rx : rx[i].kind = "timeout" => rx[i].when \in Nat
    <3>1. \A i \in DOMAIN rx : rx[i] \in Rx
      BY DEF TypeOK
    <3> QED BY <3>1 DEF Rx, TimeOutMsgs, Other
  <2>1. ASSUME NEW d \in Delays, SetTimer(d) PROVE OrderInv'
    <3>1. now + d \in Nat /\ now + d > now
      BY <2>1, <2>a, TimerAssumption DEF SetTimer
    <3>2. /\ mTimers' = mTimers \cup {[key |-> NewKey, when |-> now + d]}
          /\ UNCHANGED <<now, rx, sampled>>
      BY <2>1 DEF SetTimer, loop
    <3>3. ASSUME NEW i \in DOMAIN rx, rx[i].kind = "timeout" PROVE rx[i].when <= now + d
      <4>1. rx[i].when <= now
        BY <3>3 DEF TimeoutsInOrder
      <4>2. rx[i].when \in Nat
        BY <3>3, <2>b
      <4> HIDE DEF OrderInv
      <4> QED BY <4>1, <4>2, <3>1, <2>a
    <3> QED BY <3>2, <3>3 DEF HeapIsLater, TimeoutsInOrder
  <2>2. ASSUME NEW t \in mTimers, Pop(t) PROVE OrderInv'
    <3>1. /\ mTimers' = mTimers \ {t} /\ UNCHANGED <<now, sampled>>
          /\ t.when <= sampled
          /\ \A u \in mTimers : t.when <= u.when
      BY <2>2 DEF Pop, Top, loop
    <3>2. CASE rx' = rx
      BY <3>1, <3>2 DEF HeapIsLater, TimeoutsInOrder
    <3>3. CASE rx' = Append(rx, TimeOutOf(t))
      <4>1. TimeOutOf(t) \in Rx
        BY DEF TypeOK, Rx, TimeOutMsgs, TimeOutOf
      <4>2. /\ DOMAIN rx = 1..Len(rx) /\ DOMAIN rx' = 1..Len(rx) + 1
            /\ \A i \in 1..Len(rx) : rx'[i] = rx[i]
            /\ rx'[Len(rx) + 1] = TimeOutOf(t)
            /\ Len(rx) \in Nat
        BY <2>a, <3>3, <4>1, AppendProperties
      <4>3. TimeOutOf(t).when = t.when /\ t.when <= now
        BY <3>1, <2>a DEF TimeOutOf, HeapIsLater
      <4>4. HeapIsLater'
        BY <3>1, <4>2, <4>3 DEF HeapIsLater
      <4>5. TimeoutsInOrder'
        <5> SUFFICES ASSUME NEW i \in DOMAIN rx', rx'[i].kind = "timeout"
                     PROVE  /\ rx'[i].when <= now
                            /\ \A j \in DOMAIN rx' : i < j /\ rx'[j].kind = "timeout"
                                  => rx'[i].when <= rx'[j].when
          BY <3>1 DEF TimeoutsInOrder
        <5>1. CASE i \in 1..Len(rx)
          <6>1. rx[i].when <= now /\ rx[i].when <= t.when
            BY <4>2, <5>1 DEF TimeoutsInOrder, HeapIsLater
          <6>2. ASSUME NEW j \in 1..Len(rx) + 1, i < j, rx'[j].kind = "timeout"
                PROVE  rx[i].when <= rx'[j].when
            <7>1. CASE j \in 1..Len(rx)
              BY <4>2, <5>1, <6>2, <7>1 DEF TimeoutsInOrder
            <7>2. CASE j = Len(rx) + 1
              BY <4>2, <4>3, <6>1, <7>2
            <7> QED BY <4>2, <7>1, <7>2
          <6> QED BY <4>2, <5>1, <6>1, <6>2
        <5>2. CASE i = Len(rx) + 1
          BY <4>2, <4>3, <5>2
        <5> QED BY <4>2, <5>1, <5>2
      <4> QED BY <4>4, <4>5
    <3> QED BY <2>2, <3>2, <3>3 DEF Pop, ProcessTimer
  <2>3. CASE Receive
    <3>1. /\ DOMAIN rx = 1..Len(rx) /\ DOMAIN rx' = 1..Len(rx) - 1
          /\ \A i \in 1..Len(rx) - 1 : rx'[i] = rx[i + 1]
          /\ Len(rx) \in Nat
      BY <2>3, <2>a, HeadTailProperties DEF Receive
    <3>2. \A i \in DOMAIN rx' : i + 1 \in DOMAIN rx /\ rx'[i] = rx[i + 1]
      BY <3>1
    <3>3. UNCHANGED <<now, sampled, mTimers>>
      BY <2>3 DEF Receive, timers
    <3>4. HeapIsLater'
      BY <3>2, <3>3 DEF HeapIsLater
    <3>5. \A i, j \in DOMAIN rx' : i < j => i + 1 < j + 1
      BY <3>1
    <3>6. TimeoutsInOrder'
      BY <3>2, <3>3, <3>5 DEF TimeoutsInOrder
    <3> QED BY <3>4, <3>6
  <2>4. CASE Arrive
    <3>1. /\ DOMAIN rx = 1..Len(rx) /\ DOMAIN rx' = 1..Len(rx) + 1
          /\ \A i \in 1..Len(rx) : rx'[i] = rx[i]
          /\ rx'[Len(rx) + 1] = Other
          /\ Len(rx) \in Nat
      BY <2>4, <2>a, AppendProperties DEF Arrive, Rx
    <3>2. \A i \in DOMAIN rx' : rx'[i].kind = "timeout" => i \in DOMAIN rx /\ rx'[i] = rx[i]
      BY <3>1 DEF Other
    <3>3. UNCHANGED <<now, sampled, mTimers>>
      BY <2>4 DEF Arrive, timers, loop
    <3> QED BY <3>2, <3>3 DEF HeapIsLater, TimeoutsInOrder
  <2>5. CASE Tick
    <3>1. now' \in Nat /\ now <= now' /\ UNCHANGED <<rx, sampled, mTimers>>
      BY <2>5, <2>a DEF Tick, timers, loop
    <3>2. HeapIsLater'
      BY <3>1, <2>a DEF HeapIsLater
    <3>3. TimeoutsInOrder'
      <4> SUFFICES ASSUME NEW i \in DOMAIN rx, rx[i].kind = "timeout"
                   PROVE  /\ rx[i].when <= now'
                          /\ \A j \in DOMAIN rx : i < j /\ rx[j].kind = "timeout"
                                => rx[i].when <= rx[j].when
        BY <3>1 DEF TimeoutsInOrder
      <4>1. /\ rx[i].when <= now
            /\ \A j \in DOMAIN rx : i < j /\ rx[j].kind = "timeout"
                  => rx[i].when <= rx[j].when
        BY DEF TimeoutsInOrder
      <4>2. rx[i].when \in Nat
        BY <2>b
      <4>3. rx[i].when <= now'
        BY <4>1, <4>2, <3>1, <2>a
      <4> QED BY <4>1, <4>3
    <3> QED BY <3>2, <3>3
  <2>6. CASE Process
    <3>1. UNCHANGED <<now, rx, mTimers>> /\ sampled' <= now
      BY <2>6, <2>a DEF Process, timers, HeapIsLater
    <3> QED BY <3>1 DEF HeapIsLater, TimeoutsInOrder
  <2>7. ASSUME UNCHANGED <<now, rx, mTimers, sampled>> PROVE OrderInv'
    BY <2>7 DEF HeapIsLater, TimeoutsInOrder
  <2> QED
    BY <2>1, <2>2, <2>3, <2>4, <2>5, <2>6, <2>7
       DEF Next, Step, DelTimer, Done, Scanned, MsTillNextTimer, GetNext, TimedOut,
           vars, timers, loop
<1> QED
  BY <1>1, <1>2, TypeCorrect, PTL DEF Spec, OrderInv

-----------------------------------------------------------------------------
\* A parameter has one owner, and the table holds the keys of the wanted timers.
OwnerInv == KeysUnique /\ ParaOwnedOnce /\ TableFollowsHeap /\ HandEmpty

\* Between two messages the task holds none, after every step.
LEMMA HandStep == HandEmpty /\ [Next]_vars => HandEmpty'
BY DEF HandEmpty, Next, Step, SetTimer, DelTimer, Done, Process, Pop, Scanned,
       MsTillNextTimer, GetNext, Receive, TimedOut, Arrive, Tick, vars, loop

\* Every step keeps each parameter with its one owner.
LEMMA OwnerStep == TypeOK /\ OwnerInv /\ [Next]_vars => OwnerInv'
<1> SUFFICES ASSUME TypeOK, OwnerInv, [Next]_vars PROVE OwnerInv'
  OBVIOUS
<1> USE DEF OwnerInv
<1>c. HandEmpty'
  BY HandStep
<1>a. rx \in Seq(Rx) /\ hand \in Rx
  BY DEF TypeOK
<1>b. KeysIn(<<Other>>) = {}
  BY DEF KeysIn, Other
<1>1. ASSUME NEW d \in Delays, SetTimer(d) PROVE OwnerInv'
  <2>1. /\ mTimers' = mTimers \cup {[key |-> NewKey, when |-> now + d]}
        /\ mTimerStoped' = mTimerStoped \cup {NewKey}
        /\ alive' = alive \cup {NewKey} /\ deleted' = deleted \ {NewKey}
        /\ UNCHANGED <<rx, hand>>
        /\ NewKey \notin Pending \cup KeysIn(rx) \cup KeysIn(<<hand>>)
    BY <1>1 DEF SetTimer, loop, KeyFree
  <2>2. Pending' = Pending \cup {NewKey}
    <3> DEFINE r == [key |-> NewKey, when |-> now + d]
    <3>1. r.key = NewKey
      OBVIOUS
    <3>2. mTimers' = mTimers \cup {r}
      BY <2>1
    <3> HIDE DEF r
    <3> QED BY <3>1, <3>2 DEF Pending
  <2>3. KeysUnique'
    BY <2>1 DEF KeysUnique, Pending
  <2>4. ParaOwnedOnce'
    BY <2>1, <2>2 DEF ParaOwnedOnce
  <2>5. TableFollowsHeap'
    BY <2>1, <2>2 DEF TableFollowsHeap
  <2> QED BY <1>c, <2>3, <2>4, <2>5
<1>2. ASSUME NEW k \in Keys, DelTimer(k) PROVE OwnerInv'
  <2>1. /\ mTimerStoped' = mTimerStoped \ {k} /\ deleted' = deleted \cup {k}
        /\ UNCHANGED <<mTimers, rx, hand, alive>>
    BY <1>2 DEF DelTimer, loop
  <2> QED BY <1>c, <2>1 DEF KeysUnique, ParaOwnedOnce, TableFollowsHeap, Pending
<1>3. CASE Done
  <2>1. /\ alive' = alive \ KeysIn(<<hand>>) /\ hand' = Other
        /\ UNCHANGED <<mTimers, mTimerStoped, rx, deleted>>
    BY <1>3 DEF Done, timers
  <2>2. KeysIn(<<hand>>)' = {} /\ Pending' = Pending /\ KeysIn(rx)' = KeysIn(rx)
    BY <2>1, <1>b DEF Pending
  <2>3. ParaOwnedOnce'
    BY <2>1, <2>2 DEF ParaOwnedOnce
  <2> QED BY <1>c, <2>1, <2>2, <2>3 DEF KeysUnique, TableFollowsHeap
<1>4. ASSUME NEW t \in mTimers, Pop(t) PROVE OwnerInv'
  <2>1. mTimers' = mTimers \ {t} /\ UNCHANGED <<hand, deleted>>
    BY <1>4 DEF Pop, loop
  <2>2. Pending' = Pending \ {t.key} /\ t.key \in Pending
    BY <2>1 DEF Pending, KeysUnique
  <2>3. KeysUnique'
    BY <2>1 DEF KeysUnique
  <2>4. CASE t.key \in mTimerStoped
    <3>1. /\ rx' = Append(rx, TimeOutOf(t)) /\ mTimerStoped' = mTimerStoped \ {t.key}
          /\ alive' = alive
      BY <1>4, <2>4 DEF Pop, ProcessTimer
    <3>2. TimeOutOf(t) \in Rx /\ KeysIn(<<TimeOutOf(t)>>) = {t.key}
      BY DEF TypeOK, Rx, TimeOutMsgs, TimeOutOf, KeysIn
    <3>3. KeysIn(rx)' = KeysIn(rx) \cup {t.key}
      BY <1>a, <3>1, <3>2, KeysAppend
    <3>4. KeysIn(<<hand>>)' = KeysIn(<<hand>>)
      BY <2>1
    <3>5. \A i, j \in DOMAIN rx' :
              rx'[i].kind = "timeout" /\ rx'[j].kind = "timeout" /\ rx'[i].key = rx'[j].key
                 => i = j
      <4>1. /\ DOMAIN rx = 1..Len(rx) /\ DOMAIN rx' = 1..Len(rx) + 1
            /\ \A i \in 1..Len(rx) : rx'[i] = rx[i]
            /\ rx'[Len(rx) + 1] = TimeOutOf(t)
            /\ Len(rx) \in Nat
        BY <1>a, <3>1, <3>2, AppendProperties
      <4>2. \A i \in 1..Len(rx) : rx[i].kind = "timeout" => rx[i].key # t.key
        BY <2>2, <4>1 DEF ParaOwnedOnce, KeysIn
      <4>3. TimeOutOf(t).key = t.key
        BY DEF TimeOutOf
      <4>4. \A i \in 1..Len(rx) + 1 : i \in 1..Len(rx) \/ i = Len(rx) + 1
        BY <4>1
      <4>5. \A i, j \in 1..Len(rx) :
              rx[i].kind = "timeout" /\ rx[j].kind = "timeout" /\ rx[i].key = rx[j].key
                 => i = j
        BY <4>1 DEF ParaOwnedOnce
      <4> QED BY <4>1, <4>2, <4>3, <4>4, <4>5
    <3>6. ParaOwnedOnce'
      BY <2>2, <3>1, <3>3, <3>4, <3>5 DEF ParaOwnedOnce
    <3>7. TableFollowsHeap'
      BY <2>1, <2>2, <3>1 DEF TableFollowsHeap
    <3> QED BY <1>c, <2>3, <3>6, <3>7
  <2>5. CASE t.key \notin mTimerStoped
    <3>1. alive' = alive \ {t.key} /\ UNCHANGED <<rx, mTimerStoped>>
      BY <1>4, <2>5 DEF Pop, ProcessTimer
    <3>2. KeysIn(rx)' = KeysIn(rx) /\ KeysIn(<<hand>>)' = KeysIn(<<hand>>)
      BY <2>1, <3>1
    <3>3. ParaOwnedOnce'
      BY <2>2, <3>1, <3>2 DEF ParaOwnedOnce
    <3>4. TableFollowsHeap'
      BY <2>1, <2>2, <2>5, <3>1 DEF TableFollowsHeap
    <3> QED BY <1>c, <2>3, <3>3, <3>4
  <2> QED BY <2>4, <2>5
<1>5. CASE Receive
  <2>1. /\ rx # <<>> /\ rx' = Tail(rx) /\ hand' = Head(rx)
        /\ UNCHANGED <<mTimers, mTimerStoped, alive, deleted>>
    BY <1>5 DEF Receive, timers, history
  <2>2. KeysIn(rx) = KeysIn(<<hand>>)' \cup KeysIn(rx)' /\ Pending' = Pending
    BY <1>a, <2>1, KeysTail DEF Pending
  <2>3. /\ DOMAIN rx = 1..Len(rx) /\ DOMAIN rx' = 1..Len(rx) - 1
        /\ \A i \in 1..Len(rx) - 1 : rx'[i] = rx[i + 1]
        /\ Len(rx) \in Nat /\ Len(rx) # 0 /\ hand' = rx[1]
    BY <1>a, <2>1, HeadTailProperties, EmptySeq
  <2>4. \A i \in DOMAIN rx' : i + 1 \in DOMAIN rx /\ rx'[i] = rx[i + 1] /\ i + 1 # 1
    BY <2>3
  <2>5. \A i, j \in DOMAIN rx : rx[i].kind = "timeout" /\ rx[j].kind = "timeout"
            /\ rx[i].key = rx[j].key => i = j
    BY DEF ParaOwnedOnce
  <2>6. KeysIn(<<hand>>)' \cap KeysIn(rx)' = {}
    <3>1. DOMAIN <<hand'>> = {1} /\ <<hand'>>[1] = rx[1] /\ 1 \in DOMAIN rx
      BY <2>3
    <3> QED BY <2>4, <2>5, <3>1 DEF KeysIn
  <2>7. \A i, j \in DOMAIN rx' : i + 1 = j + 1 => i = j
    BY <2>3
  <2>8. \A i, j \in DOMAIN rx' : rx'[i].kind = "timeout" /\ rx'[j].kind = "timeout"
            /\ rx'[i].key = rx'[j].key => i = j
    BY <2>4, <2>5, <2>7
  <2>9. KeysIn(<<hand>>) = {}
    BY <1>5, <1>b DEF Receive, HandEmpty
  <2>10. ParaOwnedOnce'
    BY <2>1, <2>2, <2>6, <2>8, <2>9 DEF ParaOwnedOnce
  <2> QED BY <1>c, <2>1, <2>2, <2>10 DEF KeysUnique, TableFollowsHeap
<1>6. CASE Arrive
  <2>1. rx' = Append(rx, Other) /\ UNCHANGED <<mTimers, mTimerStoped, alive, deleted, hand>>
    BY <1>6 DEF Arrive, timers, history, loop
  <2>2. KeysIn(rx)' = KeysIn(rx)
    BY <1>a, <1>b, <2>1, KeysAppend DEF Rx
  <2>3. \A i, j \in DOMAIN rx' : rx'[i].kind = "timeout" /\ rx'[j].kind = "timeout"
            /\ rx'[i].key = rx'[j].key => i = j
    <3>1. /\ DOMAIN rx = 1..Len(rx) /\ DOMAIN rx' = 1..Len(rx) + 1
          /\ \A i \in 1..Len(rx) : rx'[i] = rx[i]
          /\ rx'[Len(rx) + 1] = Other
          /\ Len(rx) \in Nat
      BY <1>a, <2>1, AppendProperties DEF Rx
    <3>2. \A i \in DOMAIN rx' : rx'[i].kind = "timeout" => i \in DOMAIN rx /\ rx'[i] = rx[i]
      BY <3>1 DEF Other
    <3> QED BY <3>2 DEF ParaOwnedOnce
  <2>4. Pending' = Pending /\ KeysIn(<<hand>>)' = KeysIn(<<hand>>)
    BY <2>1 DEF Pending
  <2>5. ParaOwnedOnce'
    BY <2>1, <2>2, <2>3, <2>4 DEF ParaOwnedOnce
  <2> QED BY <1>c, <2>1, <2>4, <2>5 DEF KeysUnique, TableFollowsHeap
<1>7. ASSUME UNCHANGED <<mTimers, mTimerStoped, rx, hand, alive, deleted>> PROVE OwnerInv'
  BY <1>c, <1>7 DEF KeysUnique, ParaOwnedOnce, TableFollowsHeap, Pending, KeysIn
<1> QED
  BY <1>1, <1>2, <1>3, <1>4, <1>5, <1>6, <1>7
     DEF Next, Step, Process, Scanned, MsTillNextTimer, GetNext, TimedOut, Tick,
         vars, timers, loop, history

\* A parameter has one owner, and the table holds the keys of the wanted timers.
THEOREM Owner == Spec => []OwnerInv
<1>1. Init => OwnerInv
  BY DEF Init, OwnerInv, KeysUnique, ParaOwnedOnce, TableFollowsHeap, HandEmpty,
         Pending, KeysIn, Other
<1> QED
  BY <1>1, OwnerStep, TypeCorrect, PTL DEF Spec

\* Every parameter is in exactly one place until it is freed.
THEOREM ParaOwned == Spec => []ParaOwnedOnce
BY Owner, PTL DEF OwnerInv

\* The table of wanted timers holds the keys of the pending, not deleted, timers.
THEOREM TableExact == Spec => []TableFollowsHeap
BY Owner, PTL DEF OwnerInv

-----------------------------------------------------------------------------
\* A timer deleted while it is pending never becomes a timeout: only Pop adds a
\* key to the queue, and only one that is in the table.
Silent == \A k \in deleted : k \in KeysIn(rx') => k \in KeysIn(rx)

\* No step gives a deleted timer its timeout.
LEMMA SilentStep == TypeOK /\ OwnerInv /\ [Next]_vars => Silent
<1> SUFFICES ASSUME TypeOK, OwnerInv, [Next]_vars PROVE Silent
  OBVIOUS
<1>a. rx \in Seq(Rx) /\ KeysIn(<<Other>>) = {}
  BY DEF TypeOK, KeysIn, Other
<1>1. ASSUME NEW t \in mTimers, Pop(t) PROVE Silent
  <2>1. CASE rx' = rx
    BY <2>1 DEF Silent
  <2>2. CASE t.key \in mTimerStoped /\ rx' = Append(rx, TimeOutOf(t))
    <3>1. TimeOutOf(t) \in Rx /\ KeysIn(<<TimeOutOf(t)>>) = {t.key}
      BY DEF TypeOK, Rx, TimeOutMsgs, TimeOutOf, KeysIn
    <3>2. KeysIn(rx') = KeysIn(rx) \cup {t.key}
      BY <1>a, <2>2, <3>1, KeysAppend
    <3>3. t.key \notin deleted
      BY <2>2 DEF OwnerInv, TableFollowsHeap
    <3> QED BY <3>2, <3>3 DEF Silent
  <2> QED BY <1>1, <2>1, <2>2 DEF Pop, ProcessTimer
<1>2. CASE Receive
  <2>1. rx # <<>> /\ rx' = Tail(rx)
    BY <1>2 DEF Receive
  <2> QED BY <1>a, <2>1, KeysTail DEF Silent
<1>3. CASE Arrive
  <2>1. rx' = Append(rx, Other) /\ Other \in Rx
    BY <1>3 DEF Arrive, Rx
  <2> QED BY <1>a, <2>1, KeysAppend DEF Silent
<1>4. ASSUME rx' = rx PROVE Silent
  BY <1>4 DEF Silent
<1> QED
  BY <1>1, <1>2, <1>3, <1>4
     DEF Next, Step, SetTimer, DelTimer, Done, Process, Scanned, MsTillNextTimer,
         GetNext, TimedOut, Tick, vars, loop

\* A timer once deleted never reports a timeout.
THEOREM DeletedSilent == Spec => DeletedStaysSilent
<1>1. TypeOK /\ OwnerInv /\ [Next]_vars
         => [\A k \in deleted : k \in KeysIn(rx') => k \in KeysIn(rx)]_vars
  BY SilentStep DEF Silent
<1> QED
  BY <1>1, TypeCorrect, Owner, PTL DEF Spec, DeletedStaysSilent
=============================================================================

----------------------------- MODULE FifoProofs -----------------------------
(***************************************************************************)
(* Theorems of Fifo, for any number of threads and messages and any width  *)
(* of the size counter.                                                    *)
(***************************************************************************)
EXTENDS Fifo, FiniteSetTheorems, SequenceTheorems, TLAPS

-----------------------------------------------------------------------------
\* The shape of the state: the deque holds messages, the counter has its width.
THEOREM TypeCorrect == Spec => []TypeOK
<1>1. Init => TypeOK
  <2>1. 0 \in 0..SizeMod - 1
    BY FifoAssumption, FS_CardinalityType
  <2>2. <<>> \in Seq(Messages)
    OBVIOUS
  <2> QED BY <2>1, <2>2 DEF Init, TypeOK, PCs, Modes
<1>2. TypeOK /\ [Next]_vars => TypeOK'
  <2> SUFFICES ASSUME TypeOK, [Next]_vars PROVE TypeOK'
    OBVIOUS
  <2> USE DEF TypeOK, PCs, Modes
  <2>1. ASSUME NEW m \in Messages, Add(m) PROVE TypeOK'
    <3>1. pc' \in [Consumers -> PCs]
      BY <2>1 DEF Add, Signal, At
    <3>2. mFifo' \in Seq(Messages)
      BY <2>1 DEF Add
    <3>3. mSize' \in 0..SizeMod - 1
      BY <2>1, FifoAssumption, FS_CardinalityType DEF Add
    <3> QED BY <2>1, <3>1, <3>2, <3>3 DEF Add
  <2>2. ASSUME NEW c \in Consumers, NEW ms \in {0, 1}, Call(c, ms) PROVE TypeOK'
    BY <2>2 DEF Call, ModeOf
  <2>3. ASSUME NEW c \in Consumers, Take(c) PROVE TypeOK'
    <3>1. CASE mSize = 0
      BY <2>3, <3>1 DEF Take
    <3>2. CASE mSize # 0
      <4>1. Head(mFifo) \in Messages /\ Tail(mFifo) \in Seq(Messages)
        BY <2>3, HeadTailProperties DEF Take
      <4>2. mSize - 1 \in 0..SizeMod - 1
        BY <3>2, FifoAssumption
      <4> QED BY <2>3, <3>2, <4>1, <4>2 DEF Take, Return
    <3> QED BY <3>1, <3>2
  <2>4. ASSUME NEW c \in Consumers, Wait(c) PROVE TypeOK'
    BY <2>4 DEF Wait
  <2>5. ASSUME NEW c \in Consumers, Expired(c) PROVE TypeOK'
    BY <2>5 DEF Expired, Return
  <2>6. ASSUME NEW c \in Consumers, TimeOut(c) PROVE TypeOK'
    BY <2>6 DEF TimeOut
  <2>7. ASSUME NEW c \in Consumers, ReturnTimedOut(c) PROVE TypeOK'
    BY <2>7 DEF ReturnTimedOut, Return
  <2>8. ASSUME NEW c \in Consumers, SpuriousWakeup(c) PROVE TypeOK'
    BY <2>8 DEF SpuriousWakeup
  <2>9. ASSUME NEW c \in Consumers, MessageAvailable(c) PROVE TypeOK'
    BY <2>9 DEF MessageAvailable
  <2>10. CASE Clear
    BY <2>10, FifoAssumption, FS_CardinalityType DEF Clear, NoSize
  <2>11. CASE UNCHANGED vars
    BY <2>11 DEF vars
  <2> QED
    BY <2>1, <2>2, <2>3, <2>4, <2>5, <2>6, <2>7, <2>8, <2>9, <2>10, <2>11 DEF Next
<1> QED
  BY <1>1, <1>2, PTL DEF Spec

-----------------------------------------------------------------------------
\* How many threads are on their way to the queue: what one step of one thread
\* does to the number of threads at "locking".
LEMMA LockingCount ==
  ASSUME TypeOK, NEW c \in Consumers, NEW l \in PCs,
         pc' = [pc EXCEPT ![c] = l]
  PROVE  /\ IsFiniteSet(At("locking")) /\ Cardinality(At("locking")) \in Nat
         /\ (pc[c] # "locking" /\ l = "locking") =>
               Cardinality(At("locking")') = Cardinality(At("locking")) + 1
         /\ (pc[c] = "locking" /\ l # "locking") =>
               Cardinality(At("locking")') = Cardinality(At("locking")) - 1
         /\ (pc[c] = "locking" <=> l = "locking") =>
               Cardinality(At("locking")') = Cardinality(At("locking"))
<1>1. IsFiniteSet(At("locking")) /\ Cardinality(At("locking")) \in Nat
  BY FifoAssumption, FS_Subset, FS_CardinalityType DEF At
<1>2. CASE pc[c] # "locking" /\ l = "locking"
  <2>1. At("locking")' = At("locking") \cup {c} /\ c \notin At("locking")
    BY <1>2 DEF At, TypeOK
  <2> QED BY <1>1, <1>2, <2>1, FS_AddElement
<1>3. CASE pc[c] = "locking" /\ l # "locking"
  <2>1. At("locking")' = At("locking") \ {c} /\ c \in At("locking")
    BY <1>3 DEF At, TypeOK
  <2> QED BY <1>1, <1>3, <2>1, FS_RemoveElement
<1>4. CASE pc[c] = "locking" <=> l = "locking"
  <2>1. At("locking")' = At("locking")
    BY <1>4 DEF At, TypeOK
  <2> QED BY <1>1, <1>4, <2>1
<1> QED BY <1>1, <1>2, <1>3, <1>4

\* add signals under the mutex, once per message: while a thread sleeps there
\* are at least as many threads coming for the mutex as messages queued.
THEOREM NoWakeupLost == Spec => []NoLostWakeup
<1>1. Init => NoLostWakeup
  BY DEF Init, NoLostWakeup, At
<1>2. TypeOK /\ NoLostWakeup /\ [Next]_vars => NoLostWakeup'
  <2> SUFFICES ASSUME TypeOK, NoLostWakeup, [Next]_vars, At("waiting")' # {}
               PROVE  Len(mFifo') <= Cardinality(At("locking")')
    BY DEF NoLostWakeup
  <2>a. Len(mFifo) \in Nat
    BY DEF TypeOK
  <2>b. Cardinality(At("locking")) \in Nat
    BY FifoAssumption, FS_Subset, FS_CardinalityType DEF At
  <2>1. ASSUME NEW m \in Messages, Add(m)
        PROVE  Len(mFifo') <= Cardinality(At("locking")')
    <3>1. Len(mFifo') = Len(mFifo) + 1
      BY <2>1 DEF Add, TypeOK
    <3>2. CASE At("waiting") = {}
      <4>1. pc' = pc
        BY <2>1, <3>2 DEF Add, Signal
      <4> QED BY <3>2, <4>1 DEF At
    <3>3. CASE At("waiting") # {}
      <4>1. PICK w \in At("waiting") : pc' = [pc EXCEPT ![w] = "locking"]
        BY <2>1, <3>3 DEF Add, Signal
      <4>2. w \in Consumers /\ pc[w] # "locking" /\ "locking" \in PCs
        BY <4>1 DEF At, PCs
      <4>3. Cardinality(At("locking")') = Cardinality(At("locking")) + 1
        BY <4>1, <4>2, LockingCount
      <4> QED BY <2>a, <2>b, <3>1, <3>3, <4>3 DEF NoLostWakeup
    <3> QED BY <3>2, <3>3
  <2>2. ASSUME NEW c \in Consumers, NEW ms \in {0, 1}, Call(c, ms)
        PROVE  Len(mFifo') <= Cardinality(At("locking")')
    <3>1. Cardinality(At("locking")') = Cardinality(At("locking")) + 1
      BY <2>2, LockingCount DEF Call, PCs
    <3>2. At("waiting") # {}
      BY <2>2 DEF Call, At, TypeOK
    <3> QED BY <2>2, <2>a, <2>b, <3>1, <3>2 DEF Call, NoLostWakeup
  <2>3. ASSUME NEW c \in Consumers, Take(c)
        PROVE  Len(mFifo') <= Cardinality(At("locking")')
    <3>1. CASE mSize = 0
      BY <2>3, <3>1 DEF Take, At, NoLostWakeup
    <3>2. CASE mSize # 0
      <4>1. Cardinality(At("locking")') = Cardinality(At("locking")) - 1
        BY <2>3, <3>2, LockingCount DEF Take, Return, PCs
      <4>2. Len(mFifo') = Len(mFifo) - 1
        BY <2>3, <3>2, HeadTailProperties DEF Take, TypeOK
      <4>3. At("waiting") # {}
        BY <2>3, <3>2 DEF Take, Return, At, TypeOK
      <4> QED BY <2>a, <2>b, <4>1, <4>2, <4>3 DEF NoLostWakeup
    <3> QED BY <3>1, <3>2
  <2>4. ASSUME mFifo' = <<>>
        PROVE  Len(mFifo') <= Cardinality(At("locking")')
    <3>1. Cardinality(At("locking")') \in Nat
      BY FifoAssumption, FS_Subset, FS_CardinalityType DEF At
    <3> QED BY <2>4, <3>1
  <2>5. ASSUME NEW c \in Consumers, Wait(c) \/ Expired(c)
        PROVE  Len(mFifo') <= Cardinality(At("locking")')
    BY <2>4, <2>5 DEF Wait, Expired
  <2>6. ASSUME NEW c \in Consumers, TimeOut(c) \/ ReturnTimedOut(c)
        PROVE  Len(mFifo') <= Cardinality(At("locking")')
    <3>1. Cardinality(At("locking")') = Cardinality(At("locking"))
      BY <2>6, LockingCount DEF TimeOut, ReturnTimedOut, Return, PCs
    <3>2. At("waiting") # {}
      BY <2>6 DEF TimeOut, ReturnTimedOut, Return, At, TypeOK
    <3> QED BY <2>6, <3>1, <3>2 DEF TimeOut, ReturnTimedOut, NoLostWakeup
  <2>7. ASSUME NEW c \in Consumers, SpuriousWakeup(c)
        PROVE  Len(mFifo') <= Cardinality(At("locking")')
    <3>1. Cardinality(At("locking")') = Cardinality(At("locking")) + 1
      BY <2>7, LockingCount DEF SpuriousWakeup, PCs
    <3>2. At("waiting") # {}
      BY <2>7 DEF SpuriousWakeup, At
    <3> QED BY <2>7, <2>a, <2>b, <3>1, <3>2 DEF SpuriousWakeup, NoLostWakeup
  <2>8. ASSUME NEW c \in Consumers, MessageAvailable(c)
        PROVE  Len(mFifo') <= Cardinality(At("locking")')
    BY <2>8 DEF MessageAvailable, At, NoLostWakeup
  <2>9. CASE Clear
    BY <2>4, <2>9 DEF Clear
  <2>10. CASE UNCHANGED vars
    BY <2>10 DEF vars, At, NoLostWakeup
  <2> QED
    BY <2>1, <2>2, <2>3, <2>5, <2>6, <2>7, <2>8, <2>9, <2>10 DEF Next
<1> QED
  BY <1>1, <1>2, TypeCorrect, PTL DEF Spec
-----------------------------------------------------------------------------
\* A sequence without repetition over a finite set is no longer than the set.
LEMMA DistinctLength ==
  ASSUME TypeOK, Distinct
  PROVE  Len(mFifo) \in Nat /\ Len(mFifo) <= Cardinality(Messages)
<1>1. Len(mFifo) \in Nat /\ mFifo \in [1..Len(mFifo) -> Messages]
  BY LenProperties DEF TypeOK
<1>2. mFifo \in Injection(1..Len(mFifo), Messages)
  BY <1>1 DEF Distinct, Injection, IsInjective
<1>3. Cardinality(1..Len(mFifo)) <= Cardinality(Messages)
  BY <1>2, FifoAssumption, FS_Injection
<1>4. Cardinality(1..Len(mFifo)) = Len(mFifo)
  BY <1>1, FS_Interval
<1> QED BY <1>1, <1>3, <1>4

\* A message pointer is in the queue at most once.
THEOREM NoDuplicate == Spec => []Distinct
<1>1. Init => Distinct
  BY DEF Init, Distinct
<1>2. TypeOK /\ Distinct /\ [Next]_vars => Distinct'
  <2> SUFFICES ASSUME TypeOK, Distinct, [Next]_vars PROVE Distinct'
    OBVIOUS
  <2>1. ASSUME NEW m \in Messages, Add(m) PROVE Distinct'
    <3>1. /\ Len(mFifo') = Len(mFifo) + 1
          /\ \A i \in 1..Len(mFifo) : mFifo'[i] = mFifo[i]
          /\ mFifo'[Len(mFifo) + 1] = m
          /\ Len(mFifo) \in Nat
      BY <2>1 DEF Add, TypeOK
    <3>2. \A i \in 1..Len(mFifo) : mFifo[i] # m
      BY <2>1 DEF Add, ToSet, TypeOK
    <3> QED BY <3>1, <3>2 DEF Distinct
  <2>2. ASSUME NEW c \in Consumers, Take(c), mSize # 0 PROVE Distinct'
    <3>1. /\ Len(mFifo') = Len(mFifo) - 1
          /\ \A i \in 1..Len(mFifo') : mFifo'[i] = mFifo[i + 1]
          /\ Len(mFifo) \in Nat
      <4>1. mFifo' = Tail(mFifo) /\ mFifo # <<>> /\ mFifo \in Seq(Messages)
        BY <2>2 DEF Take, TypeOK
      <4> QED BY <4>1, HeadTailProperties
    <3> QED BY <3>1 DEF Distinct
  <2>3. ASSUME mFifo' = <<>> PROVE Distinct'
    BY <2>3 DEF Distinct
  <2>4. ASSUME mFifo' = mFifo PROVE Distinct'
    BY <2>4 DEF Distinct
  <2> QED
    BY <2>1, <2>2, <2>3, <2>4 DEF Next, Call, Take, Wait, Expired, TimeOut,
       ReturnTimedOut, SpuriousWakeup, MessageAvailable, Clear, vars
<1> QED
  BY <1>1, <1>2, TypeCorrect, PTL DEF Spec

\* Until clear() is called the counter is exact and the assertions of getNext
\* and messageAvailable hold, whatever the width of the counter (it has room for
\* every message, FifoAssumption).
CountInv == SizeIsLength /\ AssertsHold

\* The counter kept beside the deque is its length, and the code's assertions hold.
THEOREM CounterExact == Spec => [](SizeIsLength /\ AssertsHold)
<1>1. Init => CountInv
  BY DEF Init, CountInv, SizeIsLength, AssertsHold
<1>2. TypeOK /\ Distinct /\ Distinct' /\ TypeOK' /\ CountInv /\ [Next]_vars => CountInv'
  <2> SUFFICES ASSUME TypeOK, Distinct, TypeOK', Distinct', CountInv, [Next]_vars
               PROVE  CountInv'
    OBVIOUS
  <2> USE DEF CountInv, SizeIsLength, AssertsHold
  <2>a. /\ Len(mFifo) \in Nat /\ Cardinality(Messages) \in Nat
        /\ Len(mFifo) <= Cardinality(Messages)
    BY DistinctLength, FifoAssumption, FS_CardinalityType
  <2>1. ASSUME NEW m \in Messages, Add(m) PROVE CountInv'
    <3>1. CASE cleared
      BY <2>1, <3>1 DEF Add
    <3>2. CASE ~cleared
      <4>1. Len(mFifo') = Len(mFifo) + 1
        BY <2>1 DEF Add, TypeOK
      <4>2. mSize = Len(mFifo)
        BY <3>2
      <4>3. (mSize + 1) % SizeMod = mSize + 1
        BY <4>2, <2>a, FifoAssumption
      <4> QED BY <2>1, <4>1, <4>2, <4>3 DEF Add
    <3> QED BY <3>1, <3>2 DEF TypeOK
  <2>2. ASSUME NEW c \in Consumers, Take(c) PROVE CountInv'
    <3>1. CASE cleared
      BY <2>2, <3>1 DEF Take
    <3>2. CASE ~cleared
      <4>1. mSize # 0
        BY <2>2, <3>2 DEF Take, TypeOK
      <4>2. Len(mFifo') = Len(mFifo) - 1
        BY <2>2, <4>1, HeadTailProperties DEF Take, TypeOK
      <4> QED BY <2>2, <3>2, <4>1, <4>2 DEF Take
    <3> QED BY <3>1, <3>2
  <2>3. ASSUME NEW c \in Consumers, MessageAvailable(c) PROVE CountInv'
    BY <2>3, <2>a, FifoAssumption DEF MessageAvailable, NoSize
  <2>4. ASSUME UNCHANGED <<mFifo, mSize, aborted, cleared>> PROVE CountInv'
    BY <2>4
  <2> QED
    BY <2>1, <2>2, <2>3, <2>4 DEF Next, Call, Wait, Expired, TimeOut,
       ReturnTimedOut, SpuriousWakeup, Clear, vars
<1> QED
  BY <1>1, <1>2, TypeCorrect, NoDuplicate, PTL DEF Spec, CountInv

-----------------------------------------------------------------------------

\* The kind of a call is set when it starts and cleared when it returns.
LEMMA ModeCorrect == Spec => []ModeMatchesPC
<1>1. Init => ModeMatchesPC
  BY DEF Init, ModeMatchesPC
<1>2. TypeOK /\ ModeMatchesPC /\ [Next]_vars => ModeMatchesPC'
  <2> SUFFICES ASSUME TypeOK, ModeMatchesPC, [Next]_vars PROVE ModeMatchesPC'
    OBVIOUS
  <2> USE DEF ModeMatchesPC, TypeOK, PCs, Modes
  <2>1. ASSUME NEW m \in Messages, Add(m) PROVE ModeMatchesPC'
    BY <2>1 DEF Add, Signal, At
  <2>2. ASSUME NEW c \in Consumers, NEW ms \in {0, 1}, Call(c, ms)
        PROVE  ModeMatchesPC'
    BY <2>2 DEF Call, ModeOf
  <2>3. ASSUME NEW c \in Consumers, Take(c) PROVE ModeMatchesPC'
    BY <2>3 DEF Take, Return
  <2>4. ASSUME NEW c \in Consumers, Wait(c) \/ TimeOut(c) \/ SpuriousWakeup(c)
        PROVE  ModeMatchesPC'
    BY <2>4 DEF Wait, TimeOut, SpuriousWakeup
  <2>5. ASSUME NEW c \in Consumers, Expired(c) \/ ReturnTimedOut(c)
        PROVE  ModeMatchesPC'
    BY <2>5 DEF Expired, ReturnTimedOut, Return
  <2>6. ASSUME UNCHANGED <<pc, mode>> PROVE ModeMatchesPC'
    BY <2>6
  <2> QED
    BY <2>1, <2>2, <2>3, <2>4, <2>5, <2>6 DEF Next, MessageAvailable, Clear, vars
<1> QED
  BY <1>1, <1>2, TypeCorrect, PTL DEF Spec

\* Fifo implements MsgQueue: each step of the code is one step of the abstract
\* queue or leaves it alone (sleeping, waking and the counter are invisible).
THEOREM Refinement == Spec => ImplementsQueue
<1>1. Init => Queue!Init
  BY DEF Init, Queue!Init
<1>2. TypeOK /\ ModeMatchesPC /\ [Next]_vars => [Queue!Next]_Queue!vars
  <2> SUFFICES ASSUME TypeOK, ModeMatchesPC, [Next]_vars
               PROVE  Queue!Next \/ UNCHANGED Queue!vars
    OBVIOUS
  <2>1. ASSUME NEW m \in Messages, Add(m) PROVE Queue!Put(m)
    BY <2>1 DEF Add, Queue!Put, ToSet, Queue!ToSet
  <2>2. ASSUME NEW c \in Consumers, NEW ms \in {0, 1}, Call(c, ms)
        PROVE  Queue!Call(c, ModeOf(ms)) /\ ModeOf(ms) \in {"blocking", "timed"}
    BY <2>2 DEF Call, ModeOf, Queue!Call, ModeMatchesPC
  <2>3. ASSUME NEW c \in Consumers, Take(c)
        PROVE  Queue!Deliver(c) \/ UNCHANGED Queue!vars
    BY <2>3 DEF Take, Return, Queue!Deliver, Queue!vars, ModeMatchesPC
  <2>4. ASSUME NEW c \in Consumers, Expired(c) \/ ReturnTimedOut(c)
        PROVE  Queue!Expire(c)
    BY <2>4 DEF Expired, ReturnTimedOut, Return, Queue!Expire, ModeMatchesPC
  <2>5. ASSUME NEW c \in Consumers,
               \/ Wait(c) \/ TimeOut(c) \/ SpuriousWakeup(c) \/ MessageAvailable(c)
        PROVE  UNCHANGED Queue!vars
    BY <2>5 DEF Wait, TimeOut, SpuriousWakeup, MessageAvailable, Queue!vars
  <2>6. ASSUME Clear PROVE Queue!Drop
    BY <2>6 DEF Clear, Queue!Drop
  <2>7. ASSUME UNCHANGED vars PROVE UNCHANGED Queue!vars
    BY <2>7 DEF vars, Queue!vars
  <2> QED
    BY <2>1, <2>2, <2>3, <2>4, <2>5, <2>6, <2>7 DEF Next, Queue!Next
<1> QED
  BY <1>1, <1>2, TypeCorrect, ModeCorrect, PTL DEF Spec, ImplementsQueue, Queue!Spec
=============================================================================

--------------------------- MODULE ThreadingProofs ---------------------------
(***************************************************************************)
(* Theorems of the readers-writer mutex, of the threads and of the         *)
(* condition variable, for any finite number of threads.                   *)
(***************************************************************************)
EXTENDS RWMutex, ThreadIf, Win32Condition, FiniteSetTheorems, TLAPS

(***************************************************************************)
(* RWMutex.                                                                *)
(***************************************************************************)
\* The invariant that carries all others: the counts are exact, so that the
\* tests the calls make on them are tests of where the threads are.
LockInv == LockTypeOK /\ ~failed /\ CountsExact /\ Exclusion

\* A set of threads is finite, so that it can be counted.
LEMMA AtFinite == \A S \in SUBSET Threads : IsFiniteSet(S) /\ Cardinality(S) \in Nat
  BY ThreadsAssumption, FS_Subset, FS_CardinalityType

\* Counting one thread more and one less.
LEMMA CountOneMore ==
    ASSUME NEW S \in SUBSET Threads, NEW t \in Threads, t \notin S
    PROVE  Cardinality(S \cup {t}) = Cardinality(S) + 1
  BY AtFinite, FS_AddElement

\* One thread fewer in a set.
LEMMA CountOneLess ==
    ASSUME NEW S \in SUBSET Threads, NEW t \in S
    PROVE  Cardinality(S \ {t}) = Cardinality(S) - 1
  BY AtFinite, FS_RemoveElement

\* No thread in a set.
LEMMA CountZero ==
    ASSUME NEW S \in SUBSET Threads
    PROVE  Cardinality(S) = 0 <=> S = {}
  BY AtFinite, FS_EmptySet

\* What unlocking does to the sets that are counted: the thread leaves them, and
\* waking others does not.
LEMMA LeaveEffect ==
    ASSUME LockTypeOK, NEW t \in Threads, NEW woken \in SUBSET Threads,
           where[t] \in {"reading", "writing"}, Leave(t, woken)
    PROVE  /\ where' \in [Threads -> Stages]
           /\ Those("reading")' = Those("reading") \ {t}
           /\ Those("writing")' = Those("writing") \ {t}
           /\ Pending' = Pending
           /\ \A u \in Threads : where'[u] \in {"reading", "writing"} => where'[u] = where[u]
  <1> USE DEF LockTypeOK, Stages, Leave, Those, Pending
  <1>1. where' \in [Threads -> Stages]
    OBVIOUS
  <1>2. Those("reading")' = Those("reading") \ {t} /\ Those("writing")' = Those("writing") \ {t}
    OBVIOUS
  <1>3. Pending' = Pending
    OBVIOUS
  <1> QED BY <1>1, <1>2, <1>3

\* Whatever SignalWriter picks, it is a Leave.
LEMMA SignalLeaves ==
    ASSUME NEW t \in Threads, SignalWriter(t) \/ HandOver(t)
    PROVE  \E woken \in SUBSET Threads : Leave(t, woken)
  BY DEF SignalWriter, HandOver, Those

-----------------------------------------------------------------------------
\* Every reachable state satisfies LockInv.
LEMMA LockInductive == LockInv /\ [LockNext]_lockVars => LockInv'
<1> SUFFICES ASSUME LockInv, [LockNext]_lockVars PROVE LockInv'
  OBVIOUS
<1> USE DEF LockInv
<1>a. /\ Those("reading") \in SUBSET Threads /\ Those("writing") \in SUBSET Threads
      /\ Pending \in SUBSET Threads
  BY DEF Those, Pending
<1>1. ASSUME NEW t \in Threads, ReadLock(t) PROVE LockInv'
  <2>1. CASE ReadersBlocked
    <3>1. /\ Those("reading")' = Those("reading") /\ Those("writing")' = Those("writing")
          /\ Pending' = Pending
      BY <1>1, <2>1 DEF ReadLock, Goes, Those, Pending, LockTypeOK, Stages
    <3>2. LockTypeOK' /\ ~failed' /\ Exclusion'
      BY <1>1, <2>1 DEF ReadLock, Goes, LockTypeOK, Stages, counts, Exclusion
    <3> QED BY <1>1, <2>1, <3>1, <3>2 DEF ReadLock, counts, CountsExact
  <2>2. CASE ~ReadersBlocked
    <3>1. /\ Those("reading")' = Those("reading") \cup {t} /\ t \notin Those("reading")
          /\ Those("writing")' = Those("writing") /\ Pending' = Pending
      BY <1>1, <2>2 DEF ReadLock, Goes, Those, Pending, LockTypeOK, Stages
    <3>2. LockTypeOK' /\ ~failed'
      BY <1>1, <2>2 DEF ReadLock, Goes, LockTypeOK, Stages
    <3>3. Those("writing") = {}
      BY <2>2 DEF ReadersBlocked, CountsExact
    <3>4. Exclusion'
      BY <3>1, <3>3 DEF Exclusion, Those
    <3>5. mReaderCount' = Cardinality(Those("reading")')
      BY <1>1, <1>a, <2>2, <3>1, CountOneMore DEF ReadLock, CountsExact
    <3> QED BY <1>1, <2>2, <3>1, <3>2, <3>4, <3>5 DEF ReadLock, CountsExact
  <2> QED BY <2>1, <2>2
<1>2. ASSUME NEW t \in Threads, WriteLock(t) PROVE LockInv'
  <2>1. CASE WritersBlocked
    <3>1. /\ Those("reading")' = Those("reading") /\ Those("writing")' = Those("writing")
          /\ Pending' = Pending \cup {t} /\ t \notin Pending
      BY <1>2, <2>1 DEF WriteLock, Goes, Those, Pending, LockTypeOK, Stages
    <3>2. LockTypeOK' /\ ~failed' /\ Exclusion'
      BY <1>2, <2>1 DEF WriteLock, Goes, LockTypeOK, Stages, Exclusion
    <3>3. mPendingWriterCount' = Cardinality(Pending')
      BY <1>2, <1>a, <2>1, <3>1, CountOneMore DEF WriteLock, CountsExact
    <3> QED BY <1>2, <2>1, <3>1, <3>2, <3>3 DEF WriteLock, CountsExact
  <2>2. CASE ~WritersBlocked
    <3>1. /\ Those("reading")' = Those("reading") /\ Those("writing")' = Those("writing") \cup {t}
          /\ Pending' = Pending
      BY <1>2, <2>2 DEF WriteLock, Goes, Those, Pending, LockTypeOK, Stages
    <3>2. LockTypeOK' /\ ~failed'
      BY <1>2, <2>2 DEF WriteLock, Goes, LockTypeOK, Stages
    <3>3. Those("writing") = {} /\ Those("reading") = {}
      BY <1>a, <2>2, CountZero DEF WritersBlocked, CountsExact, LockTypeOK
    <3>4. Exclusion'
      BY <3>1, <3>3 DEF Exclusion, Those
    <3> QED BY <1>2, <2>2, <3>1, <3>2, <3>4 DEF WriteLock, CountsExact
  <2> QED BY <2>1, <2>2
<1>3. ASSUME NEW t \in Threads, WriteAgain(t) PROVE LockInv'
  <2>1. CASE WritersBlocked
    <3>1. /\ Those("reading")' = Those("reading") /\ Those("writing")' = Those("writing")
          /\ Pending' = Pending
      BY <1>3, <2>1 DEF WriteAgain, Goes, Those, Pending, LockTypeOK, Stages
    <3>2. LockTypeOK' /\ ~failed' /\ Exclusion'
      BY <1>3, <2>1 DEF WriteAgain, Goes, LockTypeOK, Stages, counts, Exclusion
    <3> QED BY <1>3, <2>1, <3>1, <3>2 DEF WriteAgain, counts, CountsExact
  <2>2. CASE ~WritersBlocked
    <3>1. /\ Those("reading")' = Those("reading") /\ Those("writing")' = Those("writing") \cup {t}
          /\ Pending' = Pending \ {t} /\ t \in Pending
      BY <1>3, <2>2 DEF WriteAgain, Goes, Those, Pending, LockTypeOK, Stages
    <3>2. mPendingWriterCount' = Cardinality(Pending')
      BY <1>3, <1>a, <2>2, <3>1, CountOneLess DEF WriteAgain, CountsExact
    <3>3. Cardinality(Pending') \in Nat
      BY <1>a, <3>1, AtFinite
    <3>4. LockTypeOK' /\ ~failed'
      BY <1>3, <2>2, <3>2, <3>3 DEF WriteAgain, Goes, LockTypeOK, Stages
    <3>5. Those("writing") = {} /\ Those("reading") = {}
      BY <1>a, <2>2, CountZero DEF WritersBlocked, CountsExact, LockTypeOK
    <3>6. Exclusion'
      BY <3>1, <3>5 DEF Exclusion, Those
    <3> QED BY <1>3, <2>2, <3>1, <3>2, <3>4, <3>6 DEF WriteAgain, CountsExact
  <2> QED BY <2>1, <2>2
<1>4. ASSUME NEW t \in Threads, Unlock(t) PROVE LockInv'
  <2>1. CASE mWriterHasLock
    <3>1. where[t] = "writing" /\ Those("reading") = {} /\ Those("writing") = {t}
      BY <1>4, <2>1 DEF Unlock, CountsExact, Exclusion, Those
    <3>2. mReaderCount = 0
      BY <1>a, <3>1, CountZero DEF CountsExact
    <3>3. PICK woken \in SUBSET Threads : Leave(t, woken)
      BY <1>4, <2>1, <3>2, SignalLeaves DEF Unlock, UnlockWrite
    <3>4. /\ Those("reading")' = {} /\ Those("writing")' = {} /\ Pending' = Pending
          /\ where' \in [Threads -> Stages]
      BY <3>1, <3>3, LeaveEffect
    <3>5. /\ mWriterHasLock' = FALSE /\ failed' = FALSE
          /\ UNCHANGED <<mReaderCount, mPendingWriterCount>>
      BY <1>4, <2>1, <3>2 DEF Unlock, UnlockWrite
    <3>6. Exclusion'
      BY <3>4 DEF Exclusion, Those
    <3> QED BY <3>1, <3>4, <3>5, <3>6 DEF LockTypeOK, CountsExact
  <2>2. CASE ~mWriterHasLock
    <3>1. where[t] = "reading" /\ Those("writing") = {} /\ t \in Those("reading")
      BY <1>4, <2>2 DEF Unlock, CountsExact, Those
    <3>2. mReaderCount # 0
      BY <1>a, <3>1, CountZero DEF CountsExact
    <3>3. PICK woken \in SUBSET Threads : Leave(t, woken)
      BY <1>4, <2>2, <3>2, SignalLeaves DEF Unlock, UnlockRead
    <3>4. /\ Those("reading")' = Those("reading") \ {t} /\ Those("writing")' = {}
          /\ Pending' = Pending /\ where' \in [Threads -> Stages]
      BY <3>1, <3>3, LeaveEffect
    <3>5. /\ mReaderCount' = mReaderCount - 1 /\ failed' = FALSE
          /\ UNCHANGED <<mWriterHasLock, mPendingWriterCount>>
      BY <1>4, <2>2, <3>2 DEF Unlock, UnlockRead
    <3>6. mReaderCount' = Cardinality(Those("reading")')
      BY <1>a, <3>1, <3>4, <3>5, CountOneLess DEF CountsExact
    <3>7. mReaderCount' \in Nat
      BY <3>2, <3>5 DEF LockTypeOK
    <3>8. Exclusion'
      BY <3>4 DEF Exclusion, Those
    <3> QED BY <2>2, <3>1, <3>4, <3>5, <3>6, <3>7, <3>8 DEF LockTypeOK, CountsExact
  <2> QED BY <2>1, <2>2
<1>5. ASSUME NEW t \in Threads, WakesUnasked(t) PROVE LockInv'
  <2>1. /\ Those("reading")' = Those("reading") /\ Those("writing")' = Those("writing")
        /\ Pending' = Pending
    BY <1>5 DEF WakesUnasked, Goes, Those, Pending, LockTypeOK, Stages
  <2>2. LockTypeOK' /\ ~failed' /\ Exclusion'
    BY <1>5 DEF WakesUnasked, Goes, LockTypeOK, Stages, counts, Exclusion
  <2> QED BY <1>5, <2>1, <2>2 DEF WakesUnasked, counts, CountsExact
<1>6. CASE UNCHANGED lockVars
  BY <1>6 DEF lockVars, counts, LockTypeOK, CountsExact, Exclusion, Those, Pending
<1> QED BY <1>1, <1>2, <1>3, <1>4, <1>5, <1>6 DEF LockNext

\* The invariant of the lock holds at the start.
LEMMA LockInitially == LockInit => LockInv
<1> SUFFICES ASSUME LockInit PROVE LockInv
  OBVIOUS
<1>1. Those("reading") = {} /\ Those("writing") = {} /\ Pending = {}
  BY DEF LockInit, Those, Pending
<1> QED BY <1>1, FS_EmptySet DEF LockInit, LockInv, LockTypeOK, Stages, CountsExact, Exclusion

\* And in every reachable state.
LEMMA LockInvariance == LockSpec => []LockInv
  BY LockInitially, LockInductive, PTL DEF LockSpec

\* The counters are exact and well typed: none of them underflows, although they
\* are decremented by threads that the code does not identify.
THEOREM LockTypeCorrect == LockSpec => []LockTypeOK
  BY LockInvariance, PTL DEF LockInv

\* The counts of RWMutex are those of the threads: who reads, whether somebody writes,
\* who waits to write.
THEOREM LockCountsTrue == LockSpec => []CountsExact
  BY LockInvariance, PTL DEF LockInv

\* A writer has the lock alone.
THEOREM MutualExclusion == LockSpec => []Exclusion
  BY LockInvariance, PTL DEF LockInv

-----------------------------------------------------------------------------
\* Whoever sleeps has somebody to wake him.  The step that matters is unlock, of
\* which each branch wakes those the others rely on.
THEOREM NobodyLost == LockSpec => []NobodyForgotten
<1>1. LockInit => NobodyForgotten
  BY DEF LockInit, NobodyForgotten, Those
<1>2. LockInv /\ NobodyForgotten /\ [LockNext]_lockVars => NobodyForgotten'
  <2> SUFFICES ASSUME LockInv, NobodyForgotten, [LockNext]_lockVars PROVE NobodyForgotten'
    OBVIOUS
  <2> USE DEF LockInv
  <2>a. /\ Those("reading") \in SUBSET Threads /\ Pending \in SUBSET Threads
    BY DEF Those, Pending
  <2>b. /\ ReadersBlocked <=> Those("writing") \cup Pending # {}
        /\ WritersBlocked <=> Those("reading") \cup Those("writing") # {}
    BY <2>a, CountZero, AtFinite DEF ReadersBlocked, WritersBlocked, CountsExact, LockTypeOK
  <2>1. ASSUME NEW t \in Threads, ReadLock(t) PROVE NobodyForgotten'
    BY <2>1, <2>b DEF ReadLock, Goes, NobodyForgotten, Those, Pending, LockTypeOK, Stages
  <2>2. ASSUME NEW t \in Threads, WriteLock(t) \/ WriteAgain(t) PROVE NobodyForgotten'
    BY <2>2, <2>b DEF WriteLock, WriteAgain, Goes, NobodyForgotten, Those, Pending,
       LockTypeOK, Stages
  <2>3. ASSUME NEW t \in Threads, Unlock(t) PROVE NobodyForgotten'
    <3>a. mPendingWriterCount > 0 <=> Pending # {}
      BY <2>a, CountZero, AtFinite DEF CountsExact
    <3>b. ASSUME SignalWriter(t), Pending # {} PROVE NobodyForgotten'
      <4>1. CASE Those("writeWait") = {} /\ Leave(t, {})
        <5>1. Those("writeWait")' = {} /\ Pending' = Pending
          BY <2>3, <4>1 DEF Unlock, Leave, Those, Pending, LockTypeOK, Stages
        <5> QED BY <3>b, <5>1 DEF NobodyForgotten
      <4>2. ASSUME NEW w \in Those("writeWait"), Leave(t, {w}) PROVE NobodyForgotten'
        <5>1. w \in Those("writeWoken")'
          BY <2>3, <4>2 DEF Unlock, Leave, Those, LockTypeOK, Stages
        <5> QED BY <5>1 DEF NobodyForgotten, Pending
      <4> QED BY <3>b, <4>1, <4>2 DEF SignalWriter
    <3>1. CASE mWriterHasLock
      <4>1. mReaderCount = 0
        BY <2>3, <2>a, <3>1, CountZero DEF Unlock, CountsExact, Exclusion, Those
      <4>2. HandOver(t)
        BY <2>3, <3>1, <4>1 DEF Unlock, UnlockWrite
      <4>3. CASE mPendingWriterCount > 0
        BY <3>a, <3>b, <4>2, <4>3 DEF HandOver
      <4>4. CASE ~(mPendingWriterCount > 0)
        <5>1. Leave(t, Those("readWait")) /\ Pending = {}
          BY <3>a, <4>2, <4>4 DEF HandOver
        <5>2. Those("readWait")' = {} /\ Those("writeWait")' = {}
          BY <2>3, <5>1 DEF Unlock, Leave, Those, Pending, LockTypeOK, Stages
        <5> QED BY <5>2 DEF NobodyForgotten
      <4> QED BY <4>3, <4>4
    <3>2. CASE ~mWriterHasLock
      <4>1. t \in Those("reading") /\ Those("writing") = {}
        BY <2>3, <3>2 DEF Unlock, CountsExact, Those
      <4>2. mReaderCount # 0 /\ mReaderCount = Cardinality(Those("reading"))
        BY <2>a, <4>1, CountZero DEF CountsExact
      <4>3. CASE LastReader /\ mPendingWriterCount > 0
        BY <2>3, <3>2, <3>a, <3>b, <4>2, <4>3 DEF Unlock, UnlockRead
      <4>4. CASE ~(LastReader /\ mPendingWriterCount > 0)
        <5>1. Leave(t, {})
          BY <2>3, <3>2, <4>2, <4>4 DEF Unlock, UnlockRead
        <5>2. /\ Those("readWait")' = Those("readWait") /\ Those("writeWait")' = Those("writeWait")
              /\ Pending' = Pending /\ Those("reading")' = Those("reading") \ {t}
          BY <2>3, <5>1 DEF Unlock, Leave, Those, Pending, LockTypeOK, Stages
        <5>3. CASE LastReader
          <6>1. Pending = {} /\ Those("writeWait") = {}
            BY <3>a, <4>4, <5>3 DEF Pending
          <6> QED BY <4>1, <5>2, <6>1 DEF NobodyForgotten
        <5>4. CASE ~LastReader
          <6>1. Cardinality(Those("reading") \ {t}) # 0
            BY <2>a, <4>1, <4>2, <5>4, CountOneLess DEF LastReader, LockTypeOK
          <6>2. Those("reading") \ {t} # {}
            BY <6>1, FS_EmptySet
          <6> QED BY <4>1, <5>2, <6>2 DEF NobodyForgotten
        <5> QED BY <5>3, <5>4
      <4> QED BY <4>3, <4>4
    <3> QED BY <3>1, <3>2
  <2>4. ASSUME NEW t \in Threads, WakesUnasked(t) PROVE NobodyForgotten'
    BY <2>4 DEF WakesUnasked, Goes, NobodyForgotten, Those, Pending, LockTypeOK, Stages
  <2>5. CASE UNCHANGED lockVars
    BY <2>5 DEF lockVars, NobodyForgotten, Those, Pending
  <2> QED BY <2>1, <2>2, <2>3, <2>4, <2>5 DEF LockNext
<1> QED
  BY <1>1, <1>2, LockInvariance, PTL DEF LockSpec

-----------------------------------------------------------------------------
\* RWMutex implements ReadersWriters: each step that takes or gives back the lock
\* is a step of the abstract lock, going to sleep to read and waking are none.
THEOREM Refinement == LockSpec => ImplementsLock
<1>1. LockInit => Lock!Init
  BY DEF LockInit, Lock!Init, Those, Pending
<1>2. LockInv /\ [LockNext]_lockVars => [Lock!Next]_Lock!vars
  <2> SUFFICES ASSUME LockInv, [LockNext]_lockVars PROVE [Lock!Next]_Lock!vars
    OBVIOUS
  <2> USE DEF LockInv
  <2>a. /\ Those("reading") \in SUBSET Threads /\ Pending \in SUBSET Threads
    BY DEF Those, Pending
  <2>b. /\ ReadersBlocked <=> Those("writing") \cup Pending # {}
        /\ WritersBlocked <=> Those("reading") \cup Those("writing") # {}
    BY <2>a, CountZero, AtFinite DEF ReadersBlocked, WritersBlocked, CountsExact, LockTypeOK
  <2>1. ASSUME NEW t \in Threads, ReadLock(t) PROVE [Lock!Next]_Lock!vars
    <3>1. CASE ReadersBlocked
      <4>1. UNCHANGED <<Those("reading"), Those("writing"), Pending>>
        BY <2>1, <3>1 DEF ReadLock, Goes, Those, Pending, LockTypeOK, Stages
      <4> QED BY <4>1 DEF Lock!vars
    <3>2. CASE ~ReadersBlocked
      <4>1. Lock!GrantRead(t)
        BY <2>1, <2>b, <3>2 DEF ReadLock, Goes, Lock!GrantRead, Those, Pending, LockTypeOK, Stages
      <4> QED BY <4>1 DEF Lock!Next
    <3> QED BY <3>1, <3>2
  <2>2. ASSUME NEW t \in Threads, WriteLock(t) PROVE [Lock!Next]_Lock!vars
    <3>1. CASE WritersBlocked
      <4>1. Lock!AskWrite(t)
        BY <2>2, <3>1 DEF WriteLock, Goes, Lock!AskWrite, Those, Pending, LockTypeOK, Stages
      <4> QED BY <4>1 DEF Lock!Next
    <3>2. CASE ~WritersBlocked
      <4>1. Lock!GrantWrite(t)
        BY <2>2, <2>b, <3>2 DEF WriteLock, Goes, Lock!GrantWrite, Those, Pending, LockTypeOK, Stages
      <4> QED BY <4>1 DEF Lock!Next
    <3> QED BY <3>1, <3>2
  <2>3. ASSUME NEW t \in Threads, WriteAgain(t) PROVE [Lock!Next]_Lock!vars
    <3>1. CASE WritersBlocked
      <4>1. UNCHANGED <<Those("reading"), Those("writing"), Pending>>
        BY <2>3, <3>1 DEF WriteAgain, Goes, Those, Pending, LockTypeOK, Stages
      <4> QED BY <4>1 DEF Lock!vars
    <3>2. CASE ~WritersBlocked
      <4>1. Lock!GrantWrite(t)
        BY <2>3, <2>b, <3>2 DEF WriteAgain, Goes, Lock!GrantWrite, Those, Pending, LockTypeOK,
           Stages
      <4> QED BY <4>1 DEF Lock!Next
    <3> QED BY <3>1, <3>2
  <2>4. ASSUME NEW t \in Threads, Unlock(t) PROVE [Lock!Next]_Lock!vars
    <3>1. (mWriterHasLock => mReaderCount = 0) /\ (~mWriterHasLock => mReaderCount # 0)
      BY <2>4, <2>a, CountZero DEF Unlock, CountsExact, Exclusion, Those
    <3>2. PICK woken \in SUBSET Threads : Leave(t, woken)
      <4>1. SignalWriter(t) \/ HandOver(t) \/ Leave(t, {})
        BY <2>4, <3>1 DEF Unlock, UnlockWrite, UnlockRead
      <4> QED BY <4>1, SignalLeaves
    <3>3. where[t] \in {"reading", "writing"}
      BY <2>4 DEF Unlock
    <3>4. Lock!Release(t)
      BY <3>2, <3>3, LeaveEffect DEF Lock!Release, Those
    <3> QED BY <3>4 DEF Lock!Next
  <2>5. ASSUME NEW t \in Threads, WakesUnasked(t) PROVE [Lock!Next]_Lock!vars
    <3>1. UNCHANGED <<Those("reading"), Those("writing"), Pending>>
      BY <2>5 DEF WakesUnasked, Goes, Those, Pending, LockTypeOK, Stages
    <3> QED BY <3>1 DEF Lock!vars
  <2>6. CASE UNCHANGED lockVars
    BY <2>6 DEF lockVars, Lock!vars, Those, Pending
  <2> QED BY <2>1, <2>2, <2>3, <2>4, <2>5, <2>6 DEF LockNext
<1>3. LockInv => ~failed
  BY DEF LockInv
<1> QED
  BY <1>1, <1>2, <1>3, LockInvariance, PTL DEF LockSpec, Lock!Spec, ImplementsLock

-----------------------------------------------------------------------------
(***************************************************************************)
(* ThreadIf.                                                               *)
(***************************************************************************)
\* A thread to be joined, or given up, has been started, and is not both; the owner
\* joins only when there is one, and a destroyed object has none.
Started == /\ mId # 0 => running[mId] # "none" /\ mId \notin released
           /\ owner \in {"joining", "lastJoin"} => mId # 0
           /\ owner = "gone" => mId = 0
           /\ released \subseteq {i \in Runs : running[i] # "none"}
           /\ joined \subseteq {i \in Runs : running[i] = "over"}
           /\ Alive \subseteq released \cup {mId}

ThreadInv == ThreadTypeOK /\ Started

\* The invariant of the threads holds at the start.
LEMMA InitStarted == ThreadInit => ThreadInv
  BY ThreadIfAssumption DEF ThreadInit, ThreadInv, ThreadTypeOK, Started, Alive, Runs, ThreadStates,
     OwnerStates, WaiterStates

\* Every step keeps the invariant of the threads.
LEMMA NextStarted == ThreadInv /\ [ThreadNext]_threadVars => ThreadInv'
<1> SUFFICES ASSUME ThreadInv, [ThreadNext]_threadVars PROVE ThreadInv'
  OBVIOUS
<1> USE ThreadIfAssumption DEF ThreadInv, ThreadTypeOK, Started, Alive, ThreadStates, OwnerStates
<1>0. 0 \notin Runs
  BY DEF Runs
<1>1. SetShutdown => mShutdown' \in BOOLEAN /\ waiter' \in [Waiters -> WaiterStates]
  BY DEF SetShutdown, WakeOne, WaiterStates
<1>2. ASSUME NEW i \in Runs, Run(i) PROVE ThreadInv'
  BY <1>0, <1>2 DEF Run
<1>3. ASSUME NEW i \in Runs, SelfJoin(i) PROVE ThreadInv'
  BY <1>0, <1>3 DEF SelfJoin
<1>4. ASSUME NEW i \in Runs, Test(i) PROVE ThreadInv'
  BY <1>0, <1>4 DEF Test
<1>5. ASSUME NEW i \in Runs, Process(i) PROVE ThreadInv'
  BY <1>0, <1>5 DEF Process
<1>6. CASE Shutdown
  BY <1>1, <1>6 DEF Shutdown
<1>7. CASE JoinBegin
  BY <1>7 DEF JoinBegin
<1>8. CASE JoinEnd
  BY <1>0, <1>8 DEF JoinEnd, Joinable
<1>9. CASE Detach
  BY <1>0, <1>9 DEF Detach
<1>10. CASE Destroy
  BY <1>1, <1>10 DEF Destroy
<1>11. CASE Construct
  BY <1>0, <1>11 DEF Construct
<1>12. ASSUME NEW w \in Waiters, NEW ms \in {0, 1}, WaitForShutdown(w, ms) PROVE ThreadInv'
  BY <1>12 DEF WaitForShutdown, WaiterStates
<1>13. ASSUME NEW w \in Waiters, WaitExpires(w) PROVE ThreadInv'
  BY <1>13 DEF WaitExpires, WaiterStates
<1>14. ASSUME NEW w \in Waiters, WaitReturns(w) PROVE ThreadInv'
  BY <1>14 DEF WaitReturns, WaiterStates
<1>15. CASE UNCHANGED threadVars
  BY <1>15 DEF threadVars
<1> QED
  BY <1>2, <1>3, <1>4, <1>5, <1>6, <1>7, <1>8, <1>9, <1>10, <1>11, <1>12, <1>13, <1>14, <1>15
     DEF ThreadNext

\* No thread uses the object after its destructor, and none that was joined is
\* still running.
THEOREM Outlived == ThreadSpec => []NoThreadOutlivesObject
<1>1. ThreadInv => NoThreadOutlivesObject
  BY DEF ThreadInv, Started, ThreadTypeOK, Runs, Alive, NoThreadOutlivesObject
<1> QED
  BY InitStarted, NextStarted, <1>1, PTL DEF ThreadSpec

-----------------------------------------------------------------------------
(***************************************************************************)
(* Condition, without pthreads.                                            *)
(***************************************************************************)
CondTypeOK == /\ m_gate \in {0, 1} /\ m_queue \in Nat
              /\ m_mutex \in Callers \cup {NoCaller} /\ held \in Callers \cup {NoCaller}
              /\ m_gone \in Nat /\ m_blocked \in Nat /\ m_waiting \in Nat
              /\ at \in [Callers -> Places] /\ tokens \in [Callers -> Nat]
              /\ due \in Nat /\ timeouts \in Nat /\ miscounted \in BOOLEAN

\* Who holds which mutex; under m_mutex nobody waits for a signal to be taken.
UnderMutex == {"in", "entering", "signal", "broadcast", "signalGate", "broadcastGate", "posting"}
AtGate == {"signalGate", "broadcastGate", "normalising"}
MutexesOK == /\ \A t \in Callers : at[t] \in UnderMutex <=> held = t
             /\ \A t \in Callers : at[t] \in AtGate <=> m_mutex = t
             /\ m_mutex # NoCaller => m_waiting = 0

\* The gate is closed exactly while wakeups are outstanding or the last drains.
GateOK == /\ m_gate = 1 <=> m_waiting = 0 /\ \A t \in Callers : at[t] # "draining"
          /\ m_waiting # 0 => \A t \in Callers : at[t] # "draining"
          /\ \A t, u \in Callers : at[t] = "draining" /\ at[u] = "draining" => t = u

Asleep == Cardinality(In({"asleep"}))
Woken == Cardinality(In({"woken"}))
Late == Cardinality(In({"late"}))

\* Where the one is who holds the user's mutex, and what it is about to post.
Doing == IF held = NoCaller THEN "out" ELSE at[held]
Posting == IF Doing = "posting" THEN tokens[held] ELSE 0

\* The threads inside wait() are those the counters tell, until the miscount.
Counted == Asleep + Woken + Late = m_blocked + (IF m_waiting # 0 THEN m_waiting ELSE -m_gone)

\* m_gone is normalised before it grows too large; while wakeups are outstanding
\* it counts only when nobody is blocked.
GoneOK == /\ m_waiting = 0 => \/ m_gone < NormalizeAt
                              \/ m_gone = NormalizeAt /\ \E t \in Callers : at[t] = "normalising"
          /\ m_waiting # 0 /\ m_gone # 0 => m_blocked = 0
          /\ (\E t \in Callers : at[t] = "draining") => Asleep = 0 /\ Woken = 0 /\ Late = 0

\* Every wakeup that is outstanding, and every one that is due, is posted or is about
\* to be posted by the thread that holds the user's mutex.
Sufficient ==
    /\ m_waiting # 0 => m_queue + Woken + Posting >= m_waiting + m_gone
    /\ Doing \in {"out", "in", "entering"} => m_queue >= due
    /\ Doing \in {"signal", "signalGate"} => m_queue + 1 >= due
    /\ Doing = "posting" => m_queue + Posting >= due

\* Before the first timeout: those and no more.
Exact ==
    /\ ~miscounted /\ m_gone = 0 /\ Late = 0
    /\ m_queue + Woken + Posting = m_waiting
    /\ Doing \in {"out", "in", "entering"} => m_queue = due
    /\ Doing \in {"signal", "signalGate"} =>
           due = IF m_queue + 1 <= Asleep THEN m_queue + 1 ELSE Asleep
    /\ Doing \in {"broadcast", "broadcastGate"} => due = Asleep
    /\ Doing = "posting" => m_queue + Posting = due

\* The invariant: where the threads are, and what the counts say of it.
Control == CondTypeOK /\ MutexesOK /\ GateOK
Counts == /\ due <= Asleep
          /\ ~miscounted => Counted /\ GoneOK /\ Sufficient
          /\ timeouts = 0 => Exact

-----------------------------------------------------------------------------
\* The callers can be counted.
LEMMA CallersFinite == \A S \in SUBSET Callers : IsFiniteSet(S) /\ Cardinality(S) \in Nat
  BY ConditionAssumption, FS_Subset, FS_CardinalityType

\* A count below the modulus is what it was.
LEMMA ModulusLarge == /\ \A i \in Int : i % CountMod \in Nat
                      /\ \A i \in 0..CountMod - 1 : i % CountMod = i
<1>1. CountMod \in Nat \ {0}
  BY ConditionAssumption, CallersFinite
<1> QED BY <1>1

\* The three counts are natural numbers, and none is 0 while a thread is there.
LEMMA CountsTyped == /\ Asleep \in Nat /\ Woken \in Nat /\ Late \in Nat
                     /\ \A t \in Callers : at[t] = "asleep" => Asleep > 0
                     /\ \A t \in Callers : at[t] = "woken" => Woken > 0
                     /\ \A t \in Callers : at[t] = "late" => Late > 0
<1>1. \A p : In({p}) \in SUBSET Callers
  BY DEF In
<1>2. \A p : \A t \in Callers : at[t] = p => In({p}) # {}
  BY DEF In
<1>3. \A S \in SUBSET Callers : Cardinality(S) \in Nat /\ (S # {} => Cardinality(S) > 0)
  BY CallersFinite, FS_EmptySet
<1> QED BY <1>1, <1>2, <1>3 DEF Asleep, Woken, Late

\* One thread changes its place: the number of those in a place.
LEMMA CountMoves ==
    ASSUME CondTypeOK, NEW t \in Callers, NEW p, Moves(t, p), NEW s
    PROVE  Cardinality(In({s}))' = Cardinality(In({s})) + (IF p = s THEN 1 ELSE 0)
                                                        - (IF at[t] = s THEN 1 ELSE 0)
<1>0. In({s}) \in SUBSET Callers /\ Cardinality(In({s})) \in Nat
  BY CallersFinite DEF In
<1>1. CASE (p = s) = (at[t] = s)
  <2>1. In({s})' = In({s})
    BY <1>1 DEF In, Moves, CondTypeOK
  <2> QED BY <2>1, <1>1, <1>0
<1>2. CASE p = s /\ at[t] # s
  <2>1. In({s})' = In({s}) \cup {t} /\ t \notin In({s})
    BY <1>2 DEF In, Moves, CondTypeOK
  <2>2. Cardinality(In({s}) \cup {t}) = Cardinality(In({s})) + 1
    BY <2>1, <1>0, CallersFinite, FS_AddElement
  <2>3. Cardinality(In({s}))' = Cardinality(In({s}) \cup {t})
    BY <2>1
  <2> QED BY <2>2, <2>3, <1>0, <1>2
<1>3. CASE p # s /\ at[t] = s
  <2>1. In({s})' = In({s}) \ {t} /\ t \in In({s})
    BY <1>3 DEF In, Moves, CondTypeOK
  <2>2. Cardinality(In({s}) \ {t}) = Cardinality(In({s})) - 1
    BY <2>1, <1>0, CallersFinite, FS_RemoveElement
  <2>3. Cardinality(In({s}))' = Cardinality(In({s}) \ {t})
    BY <2>1
  <2> QED BY <2>2, <2>3, <1>0, <1>3
<1> QED BY <1>1, <1>2, <1>3

\* A thread that moves is counted at its new place, no longer at its old one.
LEMMA CountsMove ==
    ASSUME CondTypeOK, NEW t \in Callers, NEW p, Moves(t, p)
    PROVE  /\ Asleep' = Asleep + (IF p = "asleep" THEN 1 ELSE 0) - (IF at[t] = "asleep" THEN 1 ELSE 0)
           /\ Woken' = Woken + (IF p = "woken" THEN 1 ELSE 0) - (IF at[t] = "woken" THEN 1 ELSE 0)
           /\ Late' = Late + (IF p = "late" THEN 1 ELSE 0) - (IF at[t] = "late" THEN 1 ELSE 0)
  BY CountMoves DEF Asleep, Woken, Late

\* The three places are disjoint: their threads are counted by the sum.
LEMMA InsideCount ==
    Cardinality(In({"asleep"}) \cup In({"woken"}) \cup In({"late"})) = Asleep + Woken + Late
<1>1. /\ In({"asleep"}) \in SUBSET Callers /\ In({"woken"}) \in SUBSET Callers
      /\ In({"late"}) \in SUBSET Callers
  BY DEF In
<1>2. /\ In({"asleep"}) \cap In({"woken"}) = {}
      /\ (In({"asleep"}) \cup In({"woken"})) \cap In({"late"}) = {}
  BY DEF In
<1>3. Cardinality(In({"asleep"}) \cup In({"woken"})) = Asleep + Woken
  <2>1. Cardinality(In({"asleep"}) \cup In({"woken"}))
          = Cardinality(In({"asleep"})) + Cardinality(In({"woken"})) - Cardinality({})
    BY <1>1, <1>2, CallersFinite, FS_Union
  <2> QED BY <2>1, <1>1, CallersFinite, FS_EmptySet DEF Asleep, Woken
<1>4. In({"asleep"}) \cup In({"woken"}) \in SUBSET Callers
  BY <1>1
<1>5. Cardinality(In({"asleep"}) \cup In({"woken"}) \cup In({"late"}))
        = Cardinality(In({"asleep"}) \cup In({"woken"})) + Cardinality(In({"late"})) - Cardinality({})
  BY <1>4, <1>1, <1>2, CallersFinite, FS_Union
<1> QED BY <1>5, <1>1, <1>3, CallersFinite, FS_EmptySet, CountsTyped DEF Late

\* Who is not inside wait() leaves room for one more.
LEMMA RoomForOne ==
    ASSUME NEW t \in Callers, at[t] \notin {"asleep", "woken", "late"}
    PROVE  Asleep + Woken + Late < Cardinality(Callers)
<1> DEFINE inside == In({"asleep"}) \cup In({"woken"}) \cup In({"late"})
<1>1. inside \in SUBSET Callers /\ t \notin inside
  BY DEF In
<1>2. Cardinality(inside) <= Cardinality(Callers) /\ Cardinality(inside) # Cardinality(Callers)
  BY <1>1, ConditionAssumption, FS_Subset
<1> QED BY <1>1, <1>2, InsideCount, CallersFinite

\* The smaller of two numbers.
LEMMA MinOfTwo == \A a, b \in Int : Min({a, b}) = IF a <= b THEN a ELSE b
<1> SUFFICES ASSUME NEW a \in Int, NEW b \in Int PROVE Min({a, b}) = IF a <= b THEN a ELSE b
  OBVIOUS
<1>1. \E x \in {a, b} : \A y \in {a, b} : x <= y
  OBVIOUS
<1> QED BY <1>1 DEF Min

\* The larger of two numbers.
LEMMA MaxOfTwo == \A a, b \in Int : Max({a, b}) = IF a <= b THEN b ELSE a
<1> SUFFICES ASSUME NEW a \in Int, NEW b \in Int PROVE Max({a, b}) = IF a <= b THEN b ELSE a
  OBVIOUS
<1>1. \E x \in {a, b} : \A y \in {a, b} : x >= y
  OBVIOUS
<1> QED BY <1>1 DEF Max

-----------------------------------------------------------------------------
\* Where the threads are, the mutexes and the gate: nothing of this depends on the
\* counts, so that it holds after a miscount too.
LEMMA ControlStep == Control /\ [CondNext]_condVars => Control'
<1> SUFFICES ASSUME Control, [CondNext]_condVars PROVE Control'
  OBVIOUS
<1> USE ConditionAssumption DEF Control, CondTypeOK, MutexesOK, GateOK, Moves, Places,
        UnderMutex, AtGate, counters, semaphores
<1>0. /\ Asleep \in Nat /\ \A t \in Callers : at[t] = "asleep" => Asleep > 0
      /\ \A i \in Int : i % CountMod \in Nat
  BY CountsTyped, ModulusLarge
<1>1. ASSUME NEW t \in Callers, TakeMutex(t) PROVE Control'
  BY <1>1 DEF TakeMutex
<1>2. ASSUME NEW t \in Callers, GiveMutex(t) PROVE Control'
  BY <1>2 DEF GiveMutex
<1>3. ASSUME NEW t \in Callers, CallWait(t) PROVE Control'
  BY <1>3 DEF CallWait
<1>4. ASSUME NEW t \in Callers, EnterWait(t) PROVE Control'
  BY <1>0, <1>4 DEF EnterWait
<1>5. ASSUME NEW t \in Callers, GetToken(t) PROVE Control'
  <2>1. due' \in Nat
    BY <1>5, MaxOfTwo DEF GetToken
  <2> QED BY <1>5, <2>1 DEF GetToken
<1>6. ASSUME NEW t \in Callers, TimeLimit(t) PROVE Control'
  <2>1. due' \in Nat
    BY <1>0, <1>6, MinOfTwo DEF TimeLimit, Asleep
  <2> QED BY <1>6, <2>1 DEF TimeLimit
<1>7. ASSUME NEW t \in Callers, Account(t), m_waiting # 0 PROVE Control'
  BY <1>7 DEF Account, LeaveWaiting
<1>8. ASSUME NEW t \in Callers, Account(t), m_waiting = 0 PROVE Control'
  BY <1>8 DEF Account, LeaveGone
<1>9. ASSUME NEW t \in Callers, Normalize(t) PROVE Control'
  BY <1>0, <1>9 DEF Normalize
<1>10. ASSUME NEW t \in Callers, Drain(t) PROVE Control'
  BY <1>10 DEF Drain
<1>11. ASSUME NEW t \in Callers, NEW all \in BOOLEAN, CallSignal(t, all) PROVE Control'
  <2>1. due' \in Nat
    BY <1>0, <1>11, MinOfTwo DEF CallSignal, Asleep
  <2> QED BY <1>11, <2>1 DEF CallSignal
<1>12. ASSUME NEW t \in Callers, SignalFirst(t) PROVE Control'
  BY <1>12 DEF SignalFirst
<1>13. ASSUME NEW t \in Callers, SignalGate(t) PROVE Control'
  BY <1>13 DEF SignalGate, SleepersLeft
<1>14. ASSUME NEW t \in Callers, Post(t) PROVE Control'
  BY <1>14 DEF Post
<1>15. CASE UNCHANGED condVars
  BY <1>15 DEF condVars
<1> QED
  BY <1>1, <1>2, <1>3, <1>4, <1>5, <1>6, <1>7, <1>8, <1>9, <1>10, <1>11, <1>12, <1>13, <1>14,
     <1>15 DEF CondNext

-----------------------------------------------------------------------------
\* A step of a thread that does not hold the user's mutex, before or after.
LEMMA DoingStays ==
    ASSUME Control, NEW t \in Callers, NEW p, Moves(t, p), UNCHANGED held,
           at[t] \notin UnderMutex, \A u \in Callers \ {t} : tokens'[u] = tokens[u]
    PROVE  Doing' = Doing /\ Posting' = Posting
  BY DEF Control, CondTypeOK, MutexesOK, Moves, Doing, Posting

\* A step of the thread that holds it.
LEMMA DoingMoves ==
    ASSUME Control, NEW t \in Callers, NEW p, Moves(t, p), UNCHANGED held,
           at[t] \in UnderMutex
    PROVE  /\ Doing = at[t] /\ Posting = IF at[t] = "posting" THEN tokens[t] ELSE 0
           /\ Doing' = p /\ Posting' = IF p = "posting" THEN tokens'[t] ELSE 0
  BY ConditionAssumption DEF Control, CondTypeOK, MutexesOK, Moves, Doing, Posting

\* A step of a thread that is neither normalising nor draining, before or after.
LEMMA SectionsStay ==
    ASSUME Control, NEW t \in Callers, NEW p, Moves(t, p),
           at[t] \notin {"normalising", "draining"}, p \notin {"normalising", "draining"}
    PROVE  /\ (\E u \in Callers : at'[u] = "normalising") <=> (\E u \in Callers : at[u] = "normalising")
           /\ (\E u \in Callers : at'[u] = "draining") <=> (\E u \in Callers : at[u] = "draining")
  BY DEF Control, CondTypeOK, Moves

\* When the sum of three numbers is 0 each is.
LEMMA NothingLeft == \A i, j, k \in Nat : i + j + k <= 0 => i = 0 /\ j = 0 /\ k = 0
  OBVIOUS

\* Every step keeps the counts: the threads asleep, woken and timed out are those that
\* the counters of the code tell, and enough wakeups are posted for those they are due.
LEMMA CountStep == Control /\ Counts /\ [CondNext]_condVars => Counts'
<1> SUFFICES ASSUME Control, Counts, [CondNext]_condVars PROVE Counts'
  OBVIOUS
<1> USE ConditionAssumption DEF Counts, counters, semaphores
<1>0. /\ Asleep \in Nat /\ Woken \in Nat /\ Late \in Nat
      /\ m_gate \in {0, 1} /\ m_queue \in Nat /\ due \in Nat /\ timeouts \in Nat
      /\ m_gone \in Nat /\ m_blocked \in Nat /\ m_waiting \in Nat /\ miscounted \in BOOLEAN
      /\ tokens \in [Callers -> Nat] /\ Posting \in Nat
  BY CountsTyped DEF Control, CondTypeOK, MutexesOK, Doing, Posting
<1>1. ASSUME NEW t \in Callers, TakeMutex(t) PROVE Counts'
  <2>1. Doing = "out" /\ Doing' = "in" /\ Posting = 0 /\ Posting' = 0
    BY <1>1 DEF TakeMutex, Moves, Doing, Posting, Control, CondTypeOK
  <2>2. Asleep' = Asleep /\ Woken' = Woken /\ Late' = Late
    BY <1>0, <1>1, CountsMove DEF TakeMutex, Control
  <2>3. /\ (\E u \in Callers : at'[u] = "normalising") <=> (\E u \in Callers : at[u] = "normalising")
        /\ (\E u \in Callers : at'[u] = "draining") => (\E u \in Callers : at[u] = "draining")
    BY <1>1, SectionsStay DEF TakeMutex
  <2> QED BY <1>0, <1>1, <2>1, <2>2, <2>3 DEF TakeMutex, Counted, GoneOK, Sufficient, Exact
<1>2. ASSUME NEW t \in Callers, GiveMutex(t) PROVE Counts'
  <2>1. Doing = "in" /\ Doing' = "out" /\ Posting = 0 /\ Posting' = 0
    BY <1>2 DEF GiveMutex, Moves, Doing, Posting, Control, CondTypeOK, MutexesOK, UnderMutex
  <2>2. Asleep' = Asleep /\ Woken' = Woken /\ Late' = Late
    BY <1>0, <1>2, CountsMove DEF GiveMutex, Control
  <2>3. /\ (\E u \in Callers : at'[u] = "normalising") <=> (\E u \in Callers : at[u] = "normalising")
        /\ (\E u \in Callers : at'[u] = "draining") => (\E u \in Callers : at[u] = "draining")
    BY <1>2, SectionsStay DEF GiveMutex
  <2> QED BY <1>0, <1>2, <2>1, <2>2, <2>3 DEF GiveMutex, Counted, GoneOK, Sufficient, Exact
<1>3. ASSUME NEW t \in Callers, CallWait(t) PROVE Counts'
  <2>1. Doing = "in" /\ Doing' = "entering" /\ Posting = 0 /\ Posting' = 0
    BY <1>3, DoingMoves DEF CallWait, UnderMutex
  <2>2. Asleep' = Asleep /\ Woken' = Woken /\ Late' = Late
    BY <1>0, <1>3, CountsMove DEF CallWait, Control
  <2>3. /\ (\E u \in Callers : at'[u] = "normalising") <=> (\E u \in Callers : at[u] = "normalising")
        /\ (\E u \in Callers : at'[u] = "draining") => (\E u \in Callers : at[u] = "draining")
    BY <1>3, SectionsStay DEF CallWait
  <2> QED BY <1>0, <1>3, <2>1, <2>2, <2>3 DEF CallWait, Counted, GoneOK, Sufficient, Exact
<1>4. ASSUME NEW t \in Callers, EnterWait(t) PROVE Counts'
  <2>1. Doing = "entering" /\ Doing' = "out" /\ Posting = 0 /\ Posting' = 0
    BY <1>4 DEF EnterWait, Moves, Doing, Posting, Control, CondTypeOK, MutexesOK, UnderMutex
  <2>2. Asleep' = Asleep + 1 /\ Woken' = Woken /\ Late' = Late
    BY <1>0, <1>4, CountsMove DEF EnterWait, Control
  <2>3. /\ (\E u \in Callers : at'[u] = "normalising") <=> (\E u \in Callers : at[u] = "normalising")
        /\ ~(\E u \in Callers : at'[u] = "draining") /\ m_waiting = 0
    BY <1>4 DEF EnterWait, Moves, Control, CondTypeOK, GateOK
  <2>4. ASSUME ~miscounted PROVE m_blocked' = m_blocked + 1
    <3>1. Asleep + Woken + Late < Cardinality(Callers) /\ Cardinality(Callers) \in Nat
      BY <1>4, RoomForOne, CallersFinite DEF EnterWait
    <3>2. m_gone <= NormalizeAt
      BY <1>0, <2>3, <2>4 DEF GoneOK
    <3>3. m_blocked + 1 \in 0..CountMod - 1
      BY <1>0, <2>3, <2>4, <3>1, <3>2 DEF Counted
    <3> QED BY <1>4, <3>3, ModulusLarge DEF EnterWait
  <2> QED BY <1>0, <1>4, <2>1, <2>2, <2>3, <2>4 DEF EnterWait, Counted, GoneOK, Sufficient, Exact
<1>5. ASSUME NEW t \in Callers, GetToken(t) PROVE Counts'
  <2>1. Doing' = Doing /\ Posting' = Posting
    BY <1>5, DoingStays DEF GetToken, UnderMutex
  <2>2. Asleep' = Asleep - 1 /\ Woken' = Woken + 1 /\ Late' = Late /\ Asleep > 0
    BY <1>0, <1>5, CountsMove, CountsTyped DEF GetToken, Control
  <2>3. /\ (\E u \in Callers : at'[u] = "normalising") <=> (\E u \in Callers : at[u] = "normalising")
        /\ (\E u \in Callers : at'[u] = "draining") => (\E u \in Callers : at[u] = "draining")
    BY <1>5, SectionsStay DEF GetToken
  <2>4. due' = IF due > 0 THEN due - 1 ELSE 0
    BY <1>0, <1>5, MaxOfTwo DEF GetToken
  <2> QED BY <1>0, <1>5, <2>1, <2>2, <2>3, <2>4 DEF GetToken, Counted, GoneOK, Sufficient, Exact
<1>6. ASSUME NEW t \in Callers, TimeLimit(t) PROVE Counts'
  <2>1. Doing' = Doing /\ Posting' = Posting
    BY <1>6, DoingStays DEF TimeLimit, UnderMutex
  <2>2. Asleep' = Asleep - 1 /\ Woken' = Woken /\ Late' = Late + 1 /\ Asleep > 0
    BY <1>0, <1>6, CountsMove, CountsTyped DEF TimeLimit, Control
  <2>3. /\ (\E u \in Callers : at'[u] = "normalising") <=> (\E u \in Callers : at[u] = "normalising")
        /\ (\E u \in Callers : at'[u] = "draining") => (\E u \in Callers : at[u] = "draining")
    BY <1>6, SectionsStay DEF TimeLimit
  <2>4. due' = IF due <= Asleep - 1 THEN due ELSE Asleep - 1
    BY <1>0, <1>6, MinOfTwo DEF TimeLimit, Asleep
  <2> QED BY <1>0, <1>6, <2>1, <2>2, <2>3, <2>4 DEF TimeLimit, Counted, GoneOK, Sufficient, Exact
<1>7. ASSUME NEW t \in Callers, Account(t), m_waiting # 0, at[t] = "late", m_blocked # 0
      PROVE  Counts'
  <2>1. Asleep' = Asleep
    BY <1>0, <1>7, CountsMove DEF Account, LeaveWaiting, Control
  <2>2. timeouts # 0
    BY <1>0, <1>7, CountsTyped DEF Exact
  <2> QED BY <1>0, <1>7, <2>1, <2>2 DEF Account, LeaveWaiting
<1>8. ASSUME NEW t \in Callers, Account(t), m_waiting # 0, ~(at[t] = "late" /\ m_blocked # 0)
      PROVE  Counts'
  <2>1. /\ m_waiting' = m_waiting - 1 /\ m_blocked' = m_blocked
        /\ UNCHANGED <<m_queue, due, timeouts, miscounted, held>>
        /\ m_gone' = IF m_waiting = 1 /\ m_blocked = 0 THEN 0
                     ELSE IF at[t] = "late" THEN m_gone + 1 ELSE m_gone
        /\ Moves(t, IF m_waiting = 1 /\ m_blocked = 0 THEN "draining" ELSE "relock")
        /\ at[t] \in {"woken", "late"}
    BY <1>0, <1>8 DEF Account, LeaveWaiting
  <2>2. Doing' = Doing /\ Posting' = Posting
    BY <1>0, <1>8, <2>1, DoingStays DEF Account, LeaveWaiting, UnderMutex
  <2>3. /\ Asleep' = Asleep
        /\ at[t] = "woken" => Woken' = Woken - 1 /\ Late' = Late /\ Woken > 0
        /\ at[t] = "late" => Woken' = Woken /\ Late' = Late - 1 /\ Late > 0
    BY <1>0, <2>1, CountsMove, CountsTyped DEF Control
  <2>4. ~(\E u \in Callers : at[u] = "draining")
    BY <1>8 DEF Control, GateOK
  <2>5. (\E u \in Callers : at'[u] = "draining") => m_waiting = 1 /\ m_blocked = 0
    BY <2>1, <2>4 DEF Moves, Control, CondTypeOK
  <2>6. ASSUME ~miscounted PROVE Counted' /\ GoneOK' /\ Sufficient'
    <3>1. Counted'
      BY <1>0, <1>8, <2>1, <2>3, <2>6 DEF Counted, GoneOK
    <3>2. GoneOK'
      <4>1. m_waiting' = 0 => m_gone' < NormalizeAt
        BY <1>0, <1>8, <2>1, <2>6 DEF GoneOK
      <4>2. m_waiting' # 0 /\ m_gone' # 0 => m_blocked' = 0
        BY <1>0, <1>8, <2>1, <2>6 DEF GoneOK
      <4>3. (\E u \in Callers : at'[u] = "draining") => Asleep' = 0 /\ Woken' = 0 /\ Late' = 0
        <5> SUFFICES ASSUME \E u \in Callers : at'[u] = "draining"
                     PROVE  Asleep' = 0 /\ Woken' = 0 /\ Late' = 0
          OBVIOUS
        <5>1. Asleep + Woken + Late = 1
          BY <1>0, <2>5, <2>6 DEF Counted
        <5>2. Asleep' + Woken' + Late' <= 0
          BY <1>0, <2>1, <2>3, <5>1
        <5>3. Asleep' \in Nat /\ Woken' \in Nat /\ Late' \in Nat
          BY <1>0, <2>1, <2>3
        <5> QED BY <5>2, <5>3, NothingLeft
      <4> QED BY <4>1, <4>2, <4>3 DEF GoneOK
    <3>3. Sufficient'
      BY <1>0, <1>8, <2>1, <2>2, <2>3, <2>6 DEF Sufficient
    <3> QED BY <3>1, <3>2, <3>3
  <2>7. ASSUME timeouts = 0 PROVE Exact'
    BY <1>0, <1>8, <2>1, <2>2, <2>3, <2>7 DEF Exact
  <2> QED BY <1>0, <2>1, <2>3, <2>6, <2>7
<1>9. ASSUME NEW t \in Callers, Account(t), m_waiting = 0 PROVE Counts'
  <2>1. /\ m_gone' = m_gone + 1
        /\ UNCHANGED <<m_queue, m_blocked, m_waiting, due, timeouts, miscounted, held, tokens>>
        /\ Moves(t, IF m_gone + 1 = NormalizeAt THEN "normalising" ELSE "relock")
        /\ at[t] \in {"woken", "late"} /\ m_mutex = NoCaller
    BY <1>9 DEF Account, LeaveGone
  <2>2. Doing' = Doing /\ Posting' = Posting
    BY <2>1, DoingStays DEF UnderMutex
  <2>3. /\ Asleep' = Asleep
        /\ at[t] = "woken" => Woken' = Woken - 1 /\ Late' = Late /\ Woken > 0
        /\ at[t] = "late" => Woken' = Woken /\ Late' = Late - 1 /\ Late > 0
    BY <1>0, <2>1, CountsMove, CountsTyped DEF Control
  <2>4. /\ ~(\E u \in Callers : at[u] = "normalising")
        /\ m_gone + 1 = NormalizeAt => \E u \in Callers : at'[u] = "normalising"
        /\ (\E u \in Callers : at'[u] = "draining") => (\E u \in Callers : at[u] = "draining")
    BY <2>1 DEF Moves, Control, CondTypeOK, MutexesOK, AtGate
  <2>5. ASSUME ~miscounted PROVE Counted' /\ GoneOK' /\ Sufficient'
    BY <1>0, <1>9, <2>1, <2>2, <2>3, <2>4, <2>5 DEF Counted, GoneOK, Sufficient
  <2>6. timeouts # 0
    BY <1>0, <1>9, <2>1, <2>3 DEF Exact
  <2> QED BY <1>0, <2>1, <2>3, <2>5, <2>6
<1>10. ASSUME NEW t \in Callers, Normalize(t) PROVE Counts'
  <2>1. Doing' = Doing /\ Posting' = Posting
    BY <1>10, DoingStays DEF Normalize, UnderMutex
  <2>2. Asleep' = Asleep /\ Woken' = Woken /\ Late' = Late
    BY <1>0, <1>10, CountsMove DEF Normalize, Control
  <2>3. m_waiting = 0 /\ ~(\E u \in Callers : at'[u] = "draining")
    BY <1>10 DEF Normalize, Moves, Control, CondTypeOK, GateOK
  <2>4. ASSUME ~miscounted PROVE m_blocked' = m_blocked - m_gone
    <3>1. Asleep + Woken + Late < Cardinality(Callers) /\ Cardinality(Callers) \in Nat
      BY <1>10, RoomForOne, CallersFinite DEF Normalize
    <3>2. m_blocked - m_gone \in 0..CountMod - 1
      BY <1>0, <2>3, <2>4, <3>1 DEF Counted
    <3> QED BY <1>10, <3>2, ModulusLarge DEF Normalize
  <2> QED BY <1>0, <1>10, <2>1, <2>2, <2>3, <2>4 DEF Normalize, Counted, GoneOK, Sufficient, Exact
<1>11. ASSUME NEW t \in Callers, Drain(t), tokens[t] > 0 PROVE Counts'
  <2>1. /\ UNCHANGED <<m_mutex, counters, held, at, due, timeouts, miscounted>>
        /\ m_queue > 0 /\ m_queue' = m_queue - 1
        /\ at[t] = "draining" /\ tokens' = [tokens EXCEPT ![t] = @ - 1]
    BY <1>11 DEF Drain
  <2>2. Doing' = Doing /\ Posting' = Posting
    BY <2>1 DEF Doing, Posting, Control, CondTypeOK, MutexesOK, UnderMutex
  <2>3. Asleep' = Asleep /\ Woken' = Woken /\ Late' = Late
    BY <2>1 DEF Asleep, Woken, Late, In
  <2>4. m_waiting = 0
    BY <2>1 DEF Control, GateOK
  <2>5. ASSUME ~miscounted PROVE Counted' /\ GoneOK' /\ Sufficient'
    <3>1. Asleep = 0
      BY <2>1, <2>5 DEF GoneOK
    <3> QED BY <1>0, <2>1, <2>2, <2>3, <2>4, <2>5, <3>1 DEF Counted, GoneOK, Sufficient
  <2>6. timeouts # 0
    BY <1>0, <2>1, <2>4 DEF Exact
  <2> QED BY <1>0, <2>1, <2>3, <2>5, <2>6
<1>12. ASSUME NEW t \in Callers, Drain(t), ~(tokens[t] > 0) PROVE Counts'
  <2>1. Doing' = Doing /\ Posting' = Posting
    BY <1>12, DoingStays DEF Drain, UnderMutex
  <2>2. Asleep' = Asleep /\ Woken' = Woken /\ Late' = Late
    BY <1>0, <1>12, CountsMove DEF Drain, Control
  <2>3. /\ (\E u \in Callers : at'[u] = "normalising") <=> (\E u \in Callers : at[u] = "normalising")
        /\ (\E u \in Callers : at'[u] = "draining") => (\E u \in Callers : at[u] = "draining")
    BY <1>12 DEF Drain, Moves, Control, CondTypeOK
  <2> QED BY <1>0, <1>12, <2>1, <2>2, <2>3 DEF Drain, Counted, GoneOK, Sufficient, Exact
<1>13. ASSUME NEW t \in Callers, NEW all \in BOOLEAN, CallSignal(t, all) PROVE Counts'
  <2>1. /\ Doing = "in" /\ Posting = 0 /\ Posting' = 0
        /\ Doing' = IF all THEN "broadcast" ELSE "signal"
    BY <1>13, DoingMoves DEF CallSignal, UnderMutex
  <2>2. Asleep' = Asleep /\ Woken' = Woken /\ Late' = Late
    BY <1>0, <1>13, CountsMove DEF CallSignal, Control
  <2>3. /\ (\E u \in Callers : at'[u] = "normalising") <=> (\E u \in Callers : at[u] = "normalising")
        /\ (\E u \in Callers : at'[u] = "draining") => (\E u \in Callers : at[u] = "draining")
    BY <1>13, SectionsStay DEF CallSignal
  <2>4. due' = IF all THEN Asleep ELSE IF due + 1 <= Asleep THEN due + 1 ELSE Asleep
    BY <1>0, <1>13, MinOfTwo DEF CallSignal, Asleep
  <2> QED BY <1>0, <1>13, <2>1, <2>2, <2>3, <2>4 DEF CallSignal, Counted, GoneOK, Sufficient, Exact
<1>14. ASSUME NEW t \in Callers, SignalFirst(t) PROVE Counts'
  <2>1. /\ Asleep' = Asleep /\ Woken' = Woken /\ Late' = Late
        /\ (\E u \in Callers : at'[u] = "normalising") <=> (\E u \in Callers : at[u] = "normalising")
        /\ (\E u \in Callers : at'[u] = "draining") => (\E u \in Callers : at[u] = "draining")
        /\ Doing = at[t] /\ at[t] \in {"signal", "broadcast"} /\ Posting = 0
        /\ UNCHANGED <<m_queue, m_gone, due, timeouts, miscounted>>
    <3> DEFINE p == at'[t]
    <3>1. Moves(t, p) /\ at[t] \in {"signal", "broadcast"} /\ UNCHANGED held
          /\ p \in {"in", "posting", "signalGate", "broadcastGate"}
      BY <1>14 DEF SignalFirst, Moves, Control, CondTypeOK
    <3> QED BY <1>0, <1>14, <3>1, CountsMove, SectionsStay, DoingMoves DEF SignalFirst, UnderMutex, Control
  <2>2. CASE m_waiting # 0 /\ m_blocked = 0
    <3>1. Doing' = "in" /\ Posting' = 0 /\ UNCHANGED counters
      BY <1>14, <2>2, DoingMoves DEF SignalFirst, UnderMutex
    <3> QED BY <1>0, <2>1, <2>2, <3>1 DEF Counted, GoneOK, Sufficient, Exact
  <2>3. CASE m_waiting # 0 /\ m_blocked # 0
    <3> DEFINE k == IF at[t] = "broadcast" THEN m_blocked ELSE 1
    <3>1. /\ m_waiting' = m_waiting + k /\ m_blocked' = m_blocked - k
          /\ tokens' = [tokens EXCEPT ![t] = k] /\ Moves(t, "posting") /\ UNCHANGED held
      BY <1>14, <2>3 DEF SignalFirst
    <3>2. Doing' = "posting" /\ Posting' = k
      BY <1>0, <2>1, <3>1, DoingMoves DEF UnderMutex
    <3> QED BY <1>0, <2>1, <2>3, <3>1, <3>2 DEF Counted, GoneOK, Sufficient, Exact
  <2>4. CASE m_waiting = 0
    <3>1. /\ Doing' = (IF at[t] = "broadcast" THEN "broadcastGate" ELSE "signalGate")
          /\ Posting' = 0 /\ UNCHANGED counters
      BY <1>14, <2>4, DoingMoves DEF SignalFirst, UnderMutex
    <3> QED BY <1>0, <2>1, <2>4, <3>1 DEF Counted, GoneOK, Sufficient, Exact
  <2> QED BY <1>0, <2>2, <2>3, <2>4
<1>15. ASSUME NEW t \in Callers, SignalGate(t) PROVE Counts'
  <2>1. /\ Asleep' = Asleep /\ Woken' = Woken /\ Late' = Late
        /\ (\E u \in Callers : at'[u] = "normalising") <=> (\E u \in Callers : at[u] = "normalising")
        /\ ~(\E u \in Callers : at'[u] = "draining") /\ m_waiting = 0
        /\ Doing = at[t] /\ at[t] \in {"signalGate", "broadcastGate"} /\ Posting = 0
        /\ UNCHANGED <<m_queue, due, timeouts, miscounted>>
    <3> DEFINE p == at'[t]
    <3>1. Moves(t, p) /\ at[t] \in {"signalGate", "broadcastGate"} /\ UNCHANGED held
          /\ p \in {"in", "posting"}
      BY <1>15 DEF SignalGate, Moves, Control, CondTypeOK
    <3>2. m_waiting = 0 /\ ~(\E u \in Callers : at[u] = "draining")
      BY <1>15 DEF SignalGate, Control, GateOK
    <3> QED BY <1>0, <1>15, <3>1, <3>2, CountsMove, SectionsStay, DoingMoves DEF SignalGate, UnderMutex, Control
  <2>2. CASE SleepersLeft
    <3> DEFINE k == IF at[t] = "broadcastGate" THEN m_blocked - m_gone ELSE 1
    <3>1. /\ m_waiting' = k /\ m_blocked' = m_blocked - m_gone - k /\ m_gone' = 0
          /\ tokens' = [tokens EXCEPT ![t] = k] /\ Moves(t, "posting") /\ UNCHANGED held
      BY <1>15, <2>2 DEF SignalGate
    <3>2. Doing' = "posting" /\ Posting' = k
      BY <1>0, <2>1, <3>1, DoingMoves DEF UnderMutex
    <3> HIDE DEF k
    <3>3. k > 0 /\ k \in Int /\ (at[t] = "broadcastGate" => k = m_blocked - m_gone)
          /\ (at[t] = "signalGate" => k = 1)
      BY <1>0, <2>1, <2>2 DEF k, SleepersLeft
    <3>4. ASSUME ~miscounted PROVE Counted' /\ GoneOK' /\ Sufficient'
      <4>1. Counted' /\ GoneOK'
        BY <1>0, <2>1, <3>1, <3>3, <3>4 DEF Counted, GoneOK
      <4>2. k + m_queue >= due
        BY <1>0, <2>1, <3>3, <3>4 DEF Counted, Sufficient
      <4> QED BY <1>0, <2>1, <3>1, <3>2, <3>3, <4>1, <4>2 DEF Sufficient
    <3>5. ASSUME timeouts = 0 PROVE Exact'
      <4>1. /\ ~miscounted /\ m_gone = 0 /\ Late = 0 /\ Counted
            /\ m_queue + Woken + Posting = m_waiting
        BY <3>5 DEF Exact
      <4>2. Woken = 0 /\ m_queue = 0 /\ m_blocked = Asleep
        <5>1. m_queue + Woken + Posting <= 0
          BY <2>1, <4>1
        <5>2. Woken = 0 /\ m_queue = 0
          BY <1>0, <5>1, NothingLeft
        <5> QED BY <1>0, <2>1, <4>1, <5>2 DEF Counted
      <4>3. due = k /\ m_gone' = 0 /\ Late' = 0 /\ ~miscounted'
        <5>1. CASE at[t] = "broadcastGate"
          <6>1. due = Asleep
            BY <2>1, <3>5, <5>1 DEF Exact
          <6> QED BY <1>0, <2>1, <3>1, <3>3, <4>1, <4>2, <5>1, <6>1
        <5>2. CASE at[t] = "signalGate"
          <6>1. due = IF m_queue + 1 <= Asleep THEN m_queue + 1 ELSE Asleep
            BY <2>1, <3>5, <5>2 DEF Exact
          <6>2. Asleep > 0
            BY <1>0, <2>2, <4>1, <4>2 DEF SleepersLeft
          <6> QED BY <1>0, <2>1, <3>1, <3>3, <4>1, <4>2, <5>2, <6>1, <6>2
        <5> QED BY <2>1, <5>1, <5>2
      <4>4. m_queue' + Woken' + Posting' = m_waiting' /\ m_queue' + Posting' = due'
        BY <1>0, <2>1, <3>1, <3>2, <3>3, <4>2, <4>3
      <4> QED BY <3>2, <4>3, <4>4 DEF Exact
    <3> QED BY <2>1, <3>4, <3>5
  <2>3. CASE ~SleepersLeft
    <3>1. Doing' = "in" /\ Posting' = 0 /\ UNCHANGED counters
      BY <1>15, <2>3, DoingMoves DEF SignalGate, UnderMutex
    <3>2. ASSUME ~miscounted PROVE Asleep = 0 /\ Woken = 0
      <4>1. Asleep + Woken + Late = m_blocked - m_gone
        BY <1>0, <2>1, <3>2 DEF Counted
      <4>2. Asleep + Woken + Late <= 0
        BY <1>0, <2>3, <4>1 DEF SleepersLeft
      <4> QED BY <1>0, <4>2, NothingLeft
    <3>3. ASSUME ~miscounted PROVE Counted' /\ GoneOK' /\ Sufficient'
      BY <1>0, <2>1, <3>1, <3>2, <3>3 DEF Counted, GoneOK, Sufficient
    <3>4. ASSUME timeouts = 0 PROVE Exact'
      BY <1>0, <2>1, <3>1, <3>2, <3>4 DEF Exact
    <3> QED BY <2>1, <3>3, <3>4
  <2> QED BY <2>2, <2>3
<1>16. ASSUME NEW t \in Callers, Post(t) PROVE Counts'
  <2>1. Doing = "posting" /\ Posting = tokens[t] /\ Doing' = "in" /\ Posting' = 0
    BY <1>16, DoingMoves DEF Post, UnderMutex
  <2>2. Asleep' = Asleep /\ Woken' = Woken /\ Late' = Late
    BY <1>0, <1>16, CountsMove DEF Post, Control
  <2>3. /\ (\E u \in Callers : at'[u] = "normalising") <=> (\E u \in Callers : at[u] = "normalising")
        /\ (\E u \in Callers : at'[u] = "draining") => (\E u \in Callers : at[u] = "draining")
    BY <1>16, SectionsStay DEF Post
  <2> QED BY <1>0, <1>16, <2>1, <2>2, <2>3 DEF Post, Counted, GoneOK, Sufficient, Exact
<1>17. CASE UNCHANGED condVars
  BY <1>17 DEF condVars, Counted, GoneOK, Sufficient, Exact, Asleep, Woken, Late, In, Doing, Posting
<1> QED
  BY <1>1, <1>2, <1>3, <1>4, <1>5, <1>6, <1>7, <1>8, <1>9, <1>10, <1>11, <1>12, <1>13, <1>14,
     <1>15, <1>16, <1>17 DEF CondNext

\* The invariants of the condition hold at the start.
LEMMA CondInitially == CondInit => Control /\ Counts
<1> SUFFICES ASSUME CondInit PROVE Control /\ Counts
  OBVIOUS
<1>1. In({"asleep"}) = {} /\ In({"woken"}) = {} /\ In({"late"}) = {}
  BY DEF CondInit, In
<1>2. Asleep = 0 /\ Woken = 0 /\ Late = 0 /\ Doing = "out" /\ Posting = 0
  BY <1>1, FS_EmptySet DEF CondInit, Asleep, Woken, Late, Doing, Posting
<1>3. Control
  BY ConditionAssumption DEF CondInit, Control, CondTypeOK, MutexesOK, GateOK, Places, UnderMutex, AtGate
<1>4. Counts
  BY <1>2, ConditionAssumption DEF CondInit, Counts, Counted, GoneOK, Sufficient, Exact
<1> QED BY <1>3, <1>4

\* And in every reachable state.
LEMMA CondInductive == CondSpec => [](Control /\ Counts)
  BY CondInitially, ControlStep, CountStep, PTL DEF CondSpec

\* The threads inside wait(), counted together.
LEMMA InsideIsSum == Cardinality(In({"asleep", "woken", "late"})) = Asleep + Woken + Late
  BY InsideCount DEF In

\* The counters of Condition tell how many threads are inside wait(), however the steps
\* of waiters, signallers and timeouts interleave, until one that timed out has been taken
\* off twice; and the gate is opened only when it is closed.
THEOREM CountsTrue == CondSpec => []CountersTrue
<1>1. Control /\ Counts => CountersTrue
  BY InsideIsSum DEF Control, Counts, CondTypeOK, Counted, CountersTrue
<1> QED BY <1>1, CondInductive, PTL

\* Until then no signal is lost, and until a wait has timed out none is stolen: outside
\* signal() and broadcast() m_queue holds the wakeups that are due.
THEOREM Wakeups == CondSpec => []WakeupsExact
<1>1. Control /\ Counts /\ Quiet => Doing \in {"out", "in", "entering"}
  BY DEF Quiet, In, Control, CondTypeOK, MutexesOK, Doing, UnderMutex, Places
<1>2. Control /\ Counts => WakeupsExact
  BY <1>1 DEF Counts, Sufficient, Exact, WakeupsExact
<1> QED BY <1>2, CondInductive, PTL
=============================================================================

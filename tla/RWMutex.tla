------------------------------- MODULE RWMutex -------------------------------
(***************************************************************************)
(* RWMutex: a lock for readers and writers over a Mutex and two conditions.*)
(* Each call holds mMutex from its start to its return or to the wait in a *)
(* condition, so one critical section is one action.  The code counts the  *)
(* threads and knows none of them; where[t] is where t is.                 *)
(*                                                                         *)
(* A thread asks for the lock only when it does not hold it and unlocks it *)
(* only when it does; lock() is writelock().                               *)
(***************************************************************************)
EXTENDS Integers, FiniteSets

CONSTANTS Threads

ASSUME ThreadsAssumption == IsFiniteSet(Threads)

VARIABLES mReaderCount,
          mWriterHasLock,
          mPendingWriterCount,
          where,       \* where[t]: what t is doing
          failed       \* an assert() of unlock has failed

counts == <<mReaderCount, mWriterHasLock, mPendingWriterCount>>
lockVars == <<counts, where, failed>>

\* readWait, writeWait: asleep in a condition; readWoken, writeWoken: its wait has
\* ended and it will take the mutex again; reading, writing: it holds the lock.
Stages == {"idle", "readWait", "readWoken", "reading",
           "writeWait", "writeWoken", "writing"}

Those(l) == {t \in Threads : where[t] = l}
Goes(t, l) == where' = [where EXCEPT ![t] = l]

LockTypeOK == /\ mReaderCount \in Nat
              /\ mWriterHasLock \in BOOLEAN
              /\ mPendingWriterCount \in Nat
              /\ where \in [Threads -> Stages]
              /\ failed \in BOOLEAN

LockInit == /\ mReaderCount = 0
            /\ mWriterHasLock = FALSE
            /\ mPendingWriterCount = 0
            /\ where = [t \in Threads |-> "idle"]
            /\ failed = FALSE

-----------------------------------------------------------------------------
\* Mutant: pending writers do not keep readers out.
ReadersBlockedByHolder == mWriterHasLock
ReadersBlocked == mWriterHasLock \/ mPendingWriterCount > 0

\* Mutant: a writer looks at other writers only.
WritersBlockedByWriter == mWriterHasLock
WritersBlocked == mWriterHasLock \/ mReaderCount > 0

\* readlock, from its start or from the end of its wait.
ReadLock(t) ==
    /\ ~failed
    /\ where[t] \in {"idle", "readWoken"}
    /\ IF ReadersBlocked
       THEN Goes(t, "readWait") /\ UNCHANGED counts
       ELSE /\ Goes(t, "reading")
            /\ mReaderCount' = mReaderCount + 1
            /\ UNCHANGED <<mWriterHasLock, mPendingWriterCount>>
    /\ UNCHANGED failed

\* writelock: the call counts as pending, waits, and counts no more.
WriteLock(t) ==
    /\ ~failed
    /\ where[t] = "idle"
    /\ IF WritersBlocked
       THEN /\ Goes(t, "writeWait")
            /\ mPendingWriterCount' = mPendingWriterCount + 1
            /\ UNCHANGED <<mReaderCount, mWriterHasLock>>
       ELSE /\ Goes(t, "writing")
            /\ mWriterHasLock' = TRUE
            /\ UNCHANGED <<mReaderCount, mPendingWriterCount>>
    /\ UNCHANGED failed

\* Mutant: the writer that gets the lock still counts as pending.
WriteAgainPending(t) ==
    /\ ~failed
    /\ where[t] = "writeWoken"
    /\ IF WritersBlocked
       THEN Goes(t, "writeWait") /\ UNCHANGED counts
       ELSE /\ Goes(t, "writing")
            /\ mWriterHasLock' = TRUE
            /\ UNCHANGED <<mReaderCount, mPendingWriterCount>>
    /\ UNCHANGED failed

WriteAgain(t) ==
    /\ ~failed
    /\ where[t] = "writeWoken"
    /\ IF WritersBlocked
       THEN Goes(t, "writeWait") /\ UNCHANGED counts
       ELSE /\ Goes(t, "writing")
            /\ mWriterHasLock' = TRUE
            /\ mPendingWriterCount' = mPendingWriterCount - 1
            /\ UNCHANGED mReaderCount
    /\ UNCHANGED failed

\* The thread that unlocks leaves; signal() of the writers' condition wakes one
\* sleeper, broadcast() of the readers' wakes all.
Leave(t, woken) == where' = [u \in Threads |->
    CASE u = t -> "idle"
      [] u \in woken /\ where[u] = "writeWait" -> "writeWoken"
      [] u \in woken /\ where[u] = "readWait" -> "readWoken"
      [] OTHER -> where[u]]

SignalWriter(t) == \/ Those("writeWait") = {} /\ Leave(t, {})
                   \/ \E w \in Those("writeWait") : Leave(t, {w})

\* Mutant: the writer signals the next one and forgets the readers.
HandOverToWriters(t) == SignalWriter(t)
\* After a writer: to a pending writer if there is one, else to all readers.
HandOver(t) == IF mPendingWriterCount > 0 THEN SignalWriter(t)
                                          ELSE Leave(t, Those("readWait"))

UnlockWrite(t) ==
    IF mReaderCount # 0
    THEN failed' = TRUE /\ UNCHANGED <<counts, where>>
    ELSE /\ mWriterHasLock' = FALSE
         /\ HandOver(t)
         /\ UNCHANGED <<mReaderCount, mPendingWriterCount, failed>>

\* Mutant: the last reader but one signals.
LastReaderOffByOne == mReaderCount = 2
LastReader == mReaderCount = 1

UnlockRead(t) ==
    IF mReaderCount = 0
    THEN failed' = TRUE /\ UNCHANGED <<counts, where>>
    ELSE /\ mReaderCount' = mReaderCount - 1
         /\ IF LastReader /\ mPendingWriterCount > 0 THEN SignalWriter(t)
                                                     ELSE Leave(t, {})
         /\ UNCHANGED <<mWriterHasLock, mPendingWriterCount, failed>>

\* unlock() asks the counts, not the thread, which kind of lock it gives back.
Unlock(t) == /\ ~failed
             /\ where[t] \in {"reading", "writing"}
             /\ IF mWriterHasLock THEN UnlockWrite(t) ELSE UnlockRead(t)

\* A condition may wake a waiter that nobody signalled.
WakesUnasked(t) ==
    /\ ~failed
    /\ \/ where[t] = "readWait" /\ Goes(t, "readWoken")
       \/ where[t] = "writeWait" /\ Goes(t, "writeWoken")
    /\ UNCHANGED <<counts, failed>>

LockNext == \E t \in Threads : \/ ReadLock(t)
                               \/ WriteLock(t)
                               \/ WriteAgain(t)
                               \/ Unlock(t)
                               \/ WakesUnasked(t)

LockSpec == LockInit /\ [][LockNext]_lockVars

\* Who has been woken gets the mutex, and who has the lock unlocks it.
LockFairness == \A t \in Threads : /\ WF_lockVars(where[t] = "readWoken" /\ ReadLock(t))
                                   /\ WF_lockVars(WriteAgain(t))
                                   /\ WF_lockVars(Unlock(t))
FairLockSpec == LockSpec /\ LockFairness
-----------------------------------------------------------------------------
Pending == Those("writeWait") \cup Those("writeWoken")

\* The counts are those of the threads: who reads, whether somebody writes, who
\* waits to write.
CountsExact == /\ mReaderCount = Cardinality(Those("reading"))
               /\ mPendingWriterCount = Cardinality(Pending)
               /\ mWriterHasLock <=> Those("writing") # {}

\* "Prevents other threads from obtaining either a read-lock or write-lock": who
\* writes has the lock alone.
Exclusion == \A t, u \in Threads :
                where[t] = "writing" /\ u # t => where[u] \notin {"reading", "writing"}

\* No waiter is forgotten: whoever sleeps has somebody to wake him.  A reader
\* sleeps only behind a writer, a writer only while the lock is held or a
\* writer that has been woken is on his way.
NobodyForgotten ==
    /\ Those("readWait") # {} => Those("writing") \cup Pending # {}
    /\ Those("writeWait") # {} =>
          Those("reading") \cup Those("writing") \cup Those("writeWoken") # {}

\* The calls do what ReadersWriters says, and no assertion of unlock fails.
Lock == INSTANCE ReadersWriters WITH readers <- Those("reading"),
                                     writers <- Those("writing"), asking <- Pending

ImplementsLock == Lock!Spec /\ []~failed

\* "This prevents the writer starvation problem": however many readers come and
\* go, pending writers do not all wait for ever.
SomeWriterProceeds == Pending # {} ~> Those("writing") # {}

\* Readers starve only behind writers: when no more writers come, each waiting
\* reader gets the lock.
ReadersFollow ==
    \A t \in Threads :
        <>[](Those("writing") \cup Pending = {})
            => (where[t] \in {"readWait", "readWoken"} ~> where[t] = "reading")
=============================================================================

------------------------------- MODULE ThreadIf -------------------------------
(***************************************************************************)
(* ThreadIf: an object that runs a thread.  Its owner, the thread that     *)
(* constructed it, calls run, join, detach and in the end the destructor;  *)
(* the threads it has started call process() until shutdown() is heard;    *)
(* other threads may call shutdown() and waitForShutdown().                *)
(*                                                                         *)
(* pthread_join blocks, so join() is two actions.  mShutdownMutex is held  *)
(* for a whole call but for the wait in the condition.                     *)
(***************************************************************************)
EXTENDS Integers, FiniteSets

CONSTANTS MaxRuns,    \* bound on the calls of run()
          Waiters     \* threads that call waitForShutdown

ASSUME ThreadIfAssumption == MaxRuns \in Nat \ {0} /\ IsFiniteSet(Waiters)

VARIABLES mId,        \* the thread join() would join, 0 for none
          mShutdown,
          running,    \* running[i]: what the i-th thread started is doing
          owner,      \* what the owner is doing
          waiter,     \* waiter[w]: where w is in waitForShutdown
          released,   \* threads given up by detach() or by a join() of their own
          joined      \* threads that a join() has waited for

threadVars == <<mId, mShutdown, running, owner, waiter, released, joined>>

Runs == 1..MaxRuns
\* testing: about to call isShutdown(); processing: in process().
ThreadStates == {"none", "testing", "processing", "over"}
\* joining: in pthread_join, called by join() or by the destructor.
OwnerStates == {"free", "joining", "destroying", "lastJoin", "gone"}
WaiterStates == {"idle", "timed", "unlimited", "woken"}

ThreadTypeOK == /\ mId \in Runs \cup {0}
                /\ mShutdown \in BOOLEAN
                /\ running \in [Runs -> ThreadStates]
                /\ owner \in OwnerStates
                /\ waiter \in [Waiters -> WaiterStates]
                /\ released \subseteq Runs
                /\ joined \subseteq Runs

ThreadInit == /\ mId = 0
              /\ mShutdown = FALSE
              /\ running = [i \in Runs |-> "none"]
              /\ owner = "free"
              /\ waiter = [w \in Waiters |-> "idle"]
              /\ released = {}
              /\ joined = {}

-----------------------------------------------------------------------------
Alive == {i \in Runs : running[i] \in {"testing", "processing"}}

\* run(): assert(mId == 0), then pthread_create, which sets mId.  mShutdown stays
\* as it is: a thread run after shutdown() ends at once.
Run(i) == /\ owner = "free"
          /\ mId = 0
          /\ running[i] = "none" /\ \A j \in 1..i-1 : running[j] # "none"
          /\ mId' = i
          /\ running' = [running EXCEPT ![i] = "testing"]
          /\ UNCHANGED <<mShutdown, owner, waiter, released, joined>>

\* signal() wakes one waiter, if there is one.
WakeOne(ws) == \/ ws = {} /\ UNCHANGED waiter
               \/ \E w \in ws : waiter' = [waiter EXCEPT ![w] = "woken"]

\* Mutant: shutdown() signals and does not say why.
SetShutdownForgotten == WakeOne({w \in Waiters : waiter[w] \in {"timed", "unlimited"}})
                        /\ UNCHANGED mShutdown
\* shutdown(): the first call sets mShutdown and signals.
SetShutdown == IF mShutdown
               THEN UNCHANGED <<mShutdown, waiter>>
               ELSE /\ mShutdown' = TRUE
                    /\ WakeOne({w \in Waiters : waiter[w] \in {"timed", "unlimited"}})

\* Called by the owner, or by any thread while the object lives.
Shutdown == /\ owner \in {"free", "joining", "lastJoin"}
            /\ SetShutdown
            /\ UNCHANGED <<mId, running, owner, released, joined>>

\* The owner enters join(): nothing to do without a thread.
JoinBegin == /\ owner = "free"
             /\ mId # 0
             /\ owner' = "joining"
             /\ UNCHANGED <<mId, mShutdown, running, waiter, released, joined>>

\* Mutant: a thread that has been told to stop counts as joined.
JoinableWhenTold == running[mId] = "over" \/ mShutdown
\* pthread_join returns when the thread is over.
Joinable == running[mId] = "over"

\* pthread_join has returned: mId = 0.  After the destructor's join the object is
\* gone.
JoinEnd == /\ owner \in {"joining", "lastJoin"}
           /\ Joinable
           /\ joined' = joined \cup {mId}
           /\ mId' = 0
           /\ owner' = IF owner = "joining" THEN "free" ELSE "gone"
           /\ UNCHANGED <<mShutdown, running, waiter, released>>

\* The owner gives its thread up; join() will not wait for it.
Detach == /\ owner = "free"
          /\ mId # 0
          /\ released' = released \cup {mId}
          /\ mId' = 0
          /\ UNCHANGED <<mShutdown, running, owner, waiter, joined>>

\* A thread that calls join() on itself does not wait: it clears mId.  Nothing
\* protects mId: threads that call join() at once would race, and do not here.
SelfJoin(i) == /\ running[i] = "processing"
               /\ mId = i
               /\ owner = "free"
               /\ released' = released \cup {i}
               /\ mId' = 0
               /\ UNCHANGED <<mShutdown, running, owner, waiter, joined>>

\* ~ThreadIf: shutdown(), then join().  Nobody else is inside the object.
Destroy == \/ /\ owner = "free"
              /\ \A w \in Waiters : waiter[w] = "idle"
              /\ owner' = "destroying"
              /\ SetShutdown
              /\ UNCHANGED <<mId, running, released, joined>>
           \/ /\ owner = "destroying"
              /\ owner' = IF mId = 0 THEN "gone" ELSE "lastJoin"
              /\ UNCHANGED <<mId, mShutdown, running, waiter, released, joined>>

\* Another object is constructed, once the threads of this one are over.
Construct == /\ owner = "gone"
             /\ Alive = {}
             /\ mId' = 0
             /\ mShutdown' = FALSE
             /\ running' = [i \in Runs |-> "none"]
             /\ owner' = "free"
             /\ released' = {}
             /\ joined' = {}
             /\ UNCHANGED waiter

\* thread(): while (!isShutdown()) process();
Test(i) == /\ running[i] = "testing"
           /\ running' = [running EXCEPT ![i] = IF mShutdown THEN "over" ELSE "processing"]
           /\ UNCHANGED <<mId, mShutdown, owner, waiter, released, joined>>

Process(i) == /\ running[i] = "processing"
              /\ running' = [running EXCEPT ![i] = "testing"]
              /\ UNCHANGED <<mId, mShutdown, owner, waiter, released, joined>>

\* waitForShutdown(ms): a limit of 0 waits without limit.  It waits once, and
\* returns mShutdown when the wait ends, for whatever reason.
WaitForShutdown(w, ms) ==
    /\ owner = "free"
    /\ waiter[w] = "idle"
    /\ ~mShutdown
    /\ waiter' = [waiter EXCEPT ![w] = IF ms = 0 THEN "unlimited" ELSE "timed"]
    /\ UNCHANGED <<mId, mShutdown, running, owner, released, joined>>

\* The wait ends: by its limit, or because the system wakes the waiter.
WaitExpires(w) ==
    /\ waiter[w] \in {"timed", "unlimited"}
    /\ waiter' = [waiter EXCEPT ![w] = "woken"]
    /\ UNCHANGED <<mId, mShutdown, running, owner, released, joined>>

WaitReturns(w) ==
    /\ waiter[w] = "woken"
    /\ waiter' = [waiter EXCEPT ![w] = "idle"]
    /\ UNCHANGED <<mId, mShutdown, running, owner, released, joined>>

ThreadNext == \/ \E i \in Runs : Run(i) \/ SelfJoin(i) \/ Test(i) \/ Process(i)
              \/ Shutdown \/ JoinBegin \/ JoinEnd \/ Detach \/ Destroy \/ Construct
              \/ \E w \in Waiters : \/ \E ms \in {0, 1} : WaitForShutdown(w, ms)
                                    \/ WaitExpires(w)
                                    \/ WaitReturns(w)

ThreadSpec == ThreadInit /\ [][ThreadNext]_threadVars

\* process() returns and its thread goes on; a call that can return does; a limit
\* expires.
ThreadFairness ==
    /\ \A i \in Runs : WF_threadVars(Test(i)) /\ WF_threadVars(Process(i))
    /\ WF_threadVars(JoinEnd)
    /\ WF_threadVars(owner = "destroying" /\ Destroy)
    /\ \A w \in Waiters : /\ WF_threadVars(waiter[w] = "timed" /\ WaitExpires(w))
                          /\ WF_threadVars(WaitReturns(w))
ThreadFairSpec == ThreadSpec /\ ThreadFairness
-----------------------------------------------------------------------------
\* "Joins to the thread running thread()": no thread uses the object after its
\* destructor, whatever was run, joined and run again before; and a thread that
\* join() waited for is over, and at most one is the object's own.  Threads given
\* up by detach(), or by a join() of their own, are not covered by that promise.
NoThreadOutlivesObject ==
    /\ owner = "gone" => Alive \subseteq released
    /\ Alive \subseteq released \cup {mId}
    /\ joined \cap Alive = {}

\* shutdown() is heard: every thread of the object ends, in process() or not yet
\* started when it was called, and whoever joins or destroys it returns.
ShutdownIsHeard ==
    /\ \A i \in Runs : (mShutdown /\ running[i] # "none") ~> running[i] = "over"
    /\ (mShutdown /\ owner = "joining") ~> owner = "free"
    /\ owner = "destroying" ~> owner = "gone"
=============================================================================

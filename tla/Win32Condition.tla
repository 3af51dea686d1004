---------------------------- MODULE Win32Condition ----------------------------
(***************************************************************************)
(* Condition where there are no pthreads (WIN32 with                       *)
(* RESIP_CONDITION_WIN32_CONFORMANCE_TO_POSIX): a condition variable made  *)
(* of two semaphores, a mutex and three counters.  Each wait for a kernel  *)
(* object is a step of its own; m_mutex protects m_waiting and m_gone, the *)
(* gate m_blocked.                                                         *)
(*                                                                         *)
(* The callers hold the user's mutex when they wait, signal or broadcast,  *)
(* as all users of the class do (Fifo, RWMutex, ThreadIf).                 *)
(***************************************************************************)
EXTENDS Integers, FiniteSets, FiniteSetsExt

CONSTANTS Callers,       \* threads
          TimedCallers,  \* those whose waits have a limit
          NoCaller,
          NormalizeAt,   \* ULONG_MAX / 2: where m_gone is normalised
          CountMod,      \* 2^(width of unsigned): the counters are modulo this
          MaxTimeouts,   \* bound on the waits that time out
          MaxTokens      \* bound on m_queue, for new signals

ASSUME ConditionAssumption == /\ IsFiniteSet(Callers) /\ TimedCallers \subseteq Callers
                              /\ NoCaller \notin Callers
                              /\ NormalizeAt \in Nat \ {0} /\ CountMod \in Nat
                              /\ NormalizeAt + Cardinality(Callers) < CountMod
                              /\ MaxTimeouts \in Nat /\ MaxTokens \in Nat

VARIABLES m_gate,     \* semaphore: 1 while callers may begin to wait
          m_queue,    \* semaphore: wakeups not yet taken
          m_mutex,    \* who holds it
          m_gone, m_blocked, m_waiting,
          held,       \* who holds the user's mutex
          at,         \* at[t]: where t is
          tokens,     \* tokens[t]: tokens t has yet to post or to drain
          due,        \* wakeups that the sleepers have coming to them
          timeouts,   \* number of waits that have timed out
          miscounted  \* one of them took itself off m_blocked in LeaveWaiting

semaphores == <<m_gate, m_queue>>
counters == <<m_gone, m_blocked, m_waiting>>
condVars == <<semaphores, m_mutex, counters, held, at, tokens, due, timeouts, miscounted>>

\* out, in: without and with the user's mutex.  entering ... relock: in wait();
\* signal ... posting: in signal() or broadcast().
Places == {"out", "in", "entering", "asleep", "woken", "late", "normalising",
           "draining", "relock", "signal", "broadcast", "signalGate", "broadcastGate",
           "posting"}
Moves(t, p) == at' = [at EXCEPT ![t] = p]
In(p) == {t \in Callers : at[t] \in p}

CondInit == /\ m_gate = 1 /\ m_queue = 0 /\ m_mutex = NoCaller
            /\ m_gone = 0 /\ m_blocked = 0 /\ m_waiting = 0
            /\ held = NoCaller
            /\ at = [t \in Callers |-> "out"]
            /\ tokens = [t \in Callers |-> 0]
            /\ due = 0 /\ timeouts = 0 /\ miscounted = FALSE

-----------------------------------------------------------------------------
\* The user's mutex, taken on the way in and at the end of a wait.
TakeMutex(t) == /\ at[t] \in {"out", "relock"}
                /\ held = NoCaller
                /\ held' = t
                /\ Moves(t, "in")
                /\ UNCHANGED <<semaphores, m_mutex, counters, tokens, due, timeouts, miscounted>>

GiveMutex(t) == /\ at[t] = "in"
                /\ held' = NoCaller
                /\ Moves(t, "out")
                /\ UNCHANGED <<semaphores, m_mutex, counters, tokens, due, timeouts, miscounted>>

CallWait(t) == /\ at[t] = "in"
               /\ Moves(t, "entering")
               /\ UNCHANGED <<semaphores, m_mutex, counters, held, tokens, due, timeouts, miscounted>>

\* Mutant: enterWait does not stop at the gate.
EnterWaitAnyway(t) == /\ at[t] = "entering"
                      /\ m_blocked' = (m_blocked + 1) % CountMod
                      /\ held' = NoCaller
                      /\ Moves(t, "asleep")
                      /\ UNCHANGED <<semaphores, m_mutex, m_gone, m_waiting, tokens, due, timeouts, miscounted>>
\* enterWait, and mutex.unlock(): only now can others signal.
EnterWait(t) == /\ at[t] = "entering"
                /\ m_gate = 1
                /\ m_blocked' = (m_blocked + 1) % CountMod
                /\ held' = NoCaller
                /\ Moves(t, "asleep")
                /\ UNCHANGED <<semaphores, m_mutex, m_gone, m_waiting, tokens, due, timeouts, miscounted>>

\* The wait for m_queue ends with a token, or with the limit.
GetToken(t) == /\ at[t] = "asleep"
               /\ m_queue > 0
               /\ m_queue' = m_queue - 1
               /\ due' = Max({due - 1, 0})
               /\ Moves(t, "woken")
               /\ UNCHANGED <<m_gate, m_mutex, counters, held, tokens, timeouts, miscounted>>

TimeLimit(t) == /\ at[t] = "asleep" /\ t \in TimedCallers /\ timeouts < MaxTimeouts
                /\ due' = Min({due, Cardinality(In({"asleep"})) - 1})
                /\ timeouts' = timeouts + 1
                /\ Moves(t, "late")
                /\ UNCHANGED <<semaphores, m_mutex, counters, held, tokens, miscounted>>

\* A waiter leaves while wakeups are outstanding.  The one whose leaving ends
\* them opens the gate: at once if others are blocked, otherwise after it has
\* drained the tokens of those that were gone when it looked.
LeaveWaiting(t) ==
    LET swapped == at[t] = "late" /\ m_blocked # 0
        blocked == IF swapped THEN m_blocked - 1 ELSE m_blocked
        gone == IF at[t] = "late" /\ ~swapped THEN m_gone + 1 ELSE m_gone
        last == m_waiting = 1
    IN /\ m_waiting' = m_waiting - 1
       /\ m_blocked' = blocked
       /\ m_gone' = IF last /\ blocked = 0 THEN 0 ELSE gone
       /\ m_gate' = IF last /\ blocked # 0 THEN m_gate + 1 ELSE m_gate
       /\ tokens' = [tokens EXCEPT ![t] = IF last /\ blocked = 0 THEN m_gone ELSE 0]
       /\ Moves(t, IF last /\ blocked = 0 THEN "draining" ELSE "relock")
       /\ miscounted' = (miscounted \/ swapped)
       /\ UNCHANGED m_mutex

\* A waiter leaves without any: it is gone, though m_blocked still counts it.
LeaveGone(t) ==
    /\ m_gone' = m_gone + 1
    /\ IF m_gone + 1 = NormalizeAt
       THEN m_mutex' = t /\ Moves(t, "normalising")
       ELSE UNCHANGED m_mutex /\ Moves(t, "relock")
    /\ UNCHANGED <<m_gate, m_blocked, m_waiting, tokens, miscounted>>

\* The section of wait() under m_mutex.
Account(t) == /\ at[t] \in {"woken", "late"}
              /\ m_mutex = NoCaller
              /\ IF m_waiting # 0 THEN LeaveWaiting(t) ELSE LeaveGone(t)
              /\ UNCHANGED <<m_queue, held, due, timeouts>>

Normalize(t) == /\ at[t] = "normalising"
                /\ m_gate = 1
                /\ m_blocked' = (m_blocked - m_gone) % CountMod
                /\ m_gone' = 0
                /\ m_mutex' = NoCaller
                /\ Moves(t, "relock")
                /\ UNCHANGED <<semaphores, m_waiting, held, tokens, due, timeouts, miscounted>>

\* Mutant: who drains forgets the gate.
DrainOnly(t) == /\ at[t] = "draining"
                /\ IF tokens[t] > 0
                   THEN /\ m_queue > 0 /\ m_queue' = m_queue - 1
                        /\ tokens' = [tokens EXCEPT ![t] = @ - 1] /\ UNCHANGED <<m_gate, at>>
                   ELSE Moves(t, "relock") /\ UNCHANGED <<semaphores, tokens>>
                /\ UNCHANGED <<m_mutex, counters, held, due, timeouts, miscounted>>
Drain(t) == /\ at[t] = "draining"
            /\ IF tokens[t] > 0
               THEN /\ m_queue > 0 /\ m_queue' = m_queue - 1
                    /\ tokens' = [tokens EXCEPT ![t] = @ - 1] /\ UNCHANGED <<m_gate, at>>
               ELSE /\ m_gate' = m_gate + 1
                    /\ Moves(t, "relock") /\ UNCHANGED <<m_queue, tokens>>
            /\ UNCHANGED <<m_mutex, counters, held, due, timeouts, miscounted>>

-----------------------------------------------------------------------------
\* A call of signal() is due to wake one more sleeper, broadcast() all.
CallSignal(t, all) ==
    /\ at[t] = "in" /\ m_queue <= MaxTokens
    /\ LET sleepers == Cardinality(In({"asleep"})) IN
       due' = IF all THEN sleepers ELSE Min({due + 1, sleepers})
    /\ Moves(t, IF all THEN "broadcast" ELSE "signal")
    /\ UNCHANGED <<semaphores, m_mutex, counters, held, tokens, timeouts, miscounted>>

\* The first section, under m_mutex: the gate is closed already and some are
\* blocked, or none are; or the gate has to be closed.
SignalFirst(t) ==
    /\ at[t] \in {"signal", "broadcast"}
    /\ m_mutex = NoCaller
    /\ LET k == IF at[t] = "broadcast" THEN m_blocked ELSE 1 IN
       \/ /\ m_waiting # 0 /\ m_blocked = 0
          /\ Moves(t, "in")
          /\ UNCHANGED <<m_mutex, counters, tokens>>
       \/ /\ m_waiting # 0 /\ m_blocked # 0
          /\ m_waiting' = m_waiting + k
          /\ m_blocked' = m_blocked - k
          /\ tokens' = [tokens EXCEPT ![t] = k]
          /\ Moves(t, "posting")
          /\ UNCHANGED <<m_mutex, m_gone>>
       \/ /\ m_waiting = 0
          /\ m_mutex' = t
          /\ Moves(t, IF at[t] = "broadcast" THEN "broadcastGate" ELSE "signalGate")
          /\ UNCHANGED <<counters, tokens>>
    /\ UNCHANGED <<semaphores, held, due, timeouts, miscounted>>

\* Not those that are gone, though m_blocked counts them.
SleepersLeft == m_blocked > m_gone

\* The gate is taken: it stays closed if somebody is to be woken.
SignalGate(t) ==
    /\ at[t] \in {"signalGate", "broadcastGate"}
    /\ m_gate = 1
    /\ LET blocked == m_blocked - m_gone
           k == IF at[t] = "broadcastGate" THEN blocked ELSE 1
       IN IF SleepersLeft
          THEN /\ m_gate' = 0
               /\ m_gone' = 0
               /\ m_waiting' = k
               /\ m_blocked' = blocked - k
               /\ tokens' = [tokens EXCEPT ![t] = k]
               /\ Moves(t, "posting")
          ELSE Moves(t, "in") /\ UNCHANGED <<m_gate, counters, tokens>>
    /\ m_mutex' = NoCaller
    /\ UNCHANGED <<m_queue, held, due, timeouts, miscounted>>

\* Mutant: broadcast() posts one token.
PostOne(t) == /\ at[t] = "posting"
              /\ m_queue' = m_queue + 1
              /\ tokens' = [tokens EXCEPT ![t] = 0]
              /\ Moves(t, "in")
              /\ UNCHANGED <<m_gate, m_mutex, counters, held, due, timeouts, miscounted>>
Post(t) == /\ at[t] = "posting"
           /\ m_queue' = m_queue + tokens[t]
           /\ tokens' = [tokens EXCEPT ![t] = 0]
           /\ Moves(t, "in")
           /\ UNCHANGED <<m_gate, m_mutex, counters, held, due, timeouts, miscounted>>

CondNext == \E t \in Callers :
    \/ TakeMutex(t) \/ GiveMutex(t)
    \/ CallWait(t) \/ EnterWait(t) \/ GetToken(t) \/ TimeLimit(t) \/ Account(t)
    \/ Normalize(t) \/ Drain(t)
    \/ \E all \in BOOLEAN : CallSignal(t, all)
    \/ SignalFirst(t) \/ SignalGate(t) \/ Post(t)

CondSpec == CondInit /\ [][CondNext]_condVars

\* Who can go on inside the condition does.
CondFairness ==
    \A t \in Callers : /\ WF_condVars(EnterWait(t)) /\ WF_condVars(GetToken(t))
                       /\ WF_condVars(Account(t)) /\ WF_condVars(Normalize(t))
                       /\ WF_condVars(Drain(t))
                       /\ WF_condVars(SignalFirst(t)) /\ WF_condVars(SignalGate(t))
                       /\ WF_condVars(Post(t))
CondFairSpec == CondSpec /\ CondFairness
-----------------------------------------------------------------------------
Quiet == In({"signal", "broadcast", "signalGate", "broadcastGate", "posting"}) = {}

\* The counters tell how many threads are inside wait(), until one that timed out
\* has been taken off twice: while wakeups are outstanding, those and the blocked;
\* otherwise the blocked less the gone.  And assert(res) of every ReleaseSemaphore
\* holds: the gate, whose maximum is 1, is opened only when it is closed.
CountersTrue ==
    /\ ~miscounted => Cardinality(In({"asleep", "woken", "late"})) =
                          m_blocked + (IF m_waiting # 0 THEN m_waiting ELSE -m_gone)
    /\ m_gate \in {0, 1}

\* Until then no signal is lost: each wakeup a sleeper has coming to it is in
\* m_queue.  And until a wait has timed out nothing else is: no thread that began
\* to wait after a signal takes it from those that waited before.
WakeupsExact == Quiet => /\ ~miscounted => m_queue >= due
                         /\ timeouts = 0 => m_queue = due

\* "Signal one waiting thread": also after waits have timed out.
SignalNotLost == Quiet => m_queue >= due

\* The gate that a signal closes is opened again, by the last of those it wakes:
\* nobody is kept for ever from beginning to wait, nor, through the user's mutex,
\* from anything else.
GateReopens == m_gate = 0 ~> (m_gate = 1 \/ miscounted)
=============================================================================

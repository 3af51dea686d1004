------------------------------ MODULE TimerQueue ------------------------------
(***************************************************************************)
(* The main loop of a task, TAbstractTask::process, with its timers.       *)
(* TaskTimerQueue keeps the pending timers in a heap (mTimers) and, in the *)
(* hash table mTimerStoped, the keys that are still wanted: delTimer only  *)
(* takes the key out of the table.  Each turn of the loop moves the timers *)
(* that are due to the task's own queue as TTimeOutMsg, asks how long it   *)
(* is to the next one, waits at most that long for a message and handles   *)
(* one.  The clock is read three times on the way, and runs in between;    *)
(* other threads add messages to the queue at any time.                    *)
(*                                                                         *)
(* Every timer here carries a user parameter (para), identified with the   *)
(* timer's key.  stop(key) of the queue is called by nobody and left out,  *)
(* so that every entry of mTimerStoped is TRUE and the table is a set.     *)
(***************************************************************************)
EXTENDS Integers, Sequences, SequencesExt, FiniteSets

CONSTANTS Delays,      \* delays the application asks for
          StepMax,     \* longest wait of one turn (1000 ms)
          KeyMod,      \* 2^(width of UINT): keys are modulo this
          Horizon,     \* bound: no timer is set for later than this
          MaxRx        \* bound: others add no message to a queue this long

ASSUME TimerAssumption ==
    /\ Delays \subseteq Nat
    /\ StepMax \in Nat \ {0}
    /\ KeyMod \in Nat /\ KeyMod > 1
    /\ Horizon \in Nat /\ MaxRx \in Nat

VARIABLES now,           \* getTimeMs()
          mTimers,       \* the heap, as a set of [key, when]
          mTimerStoped,  \* keys of the timers still wanted
          mTimerKey,     \* the last key given out
          rx,            \* mTaskRxFifo
          pc,            \* where process() is
          sampled,       \* the time process() compares the timers with
          limit,         \* what process() of the timer queue returned
          deadline,      \* when the wait in getNext ends
          hand,          \* the message being handled
          alive,         \* paras allocated and not freed
          deleted        \* keys given to delTimer since they were given out

loop == <<pc, sampled, limit, deadline, hand>>
timers == <<mTimers, mTimerStoped, mTimerKey>>
history == <<alive, deleted>>
vars == <<now, timers, rx, loop, history>>

Keys == 1..KeyMod - 1
Never == -1                      \* getNext(0) waits without limit
Other == [kind |-> "msg", key |-> 0, when |-> 0]
TimeOutMsgs == [kind : {"timeout"}, key : Keys, when : Nat]
Rx == TimeOutMsgs \cup {Other}

Pending == {t.key : t \in mTimers}
KeysIn(s) == {s[i].key : i \in {j \in DOMAIN s : s[j].kind = "timeout"}}

TypeOK == /\ now \in Nat
          /\ mTimers \subseteq [key : Keys, when : Nat]
          /\ mTimerStoped \subseteq Keys
          /\ mTimerKey \in 0..KeyMod - 1
          /\ rx \in Seq(Rx)
          /\ pc \in {"top", "scan", "next", "get", "wait", "handle"}
          /\ sampled \in Nat /\ limit \in 0..StepMax
          /\ deadline \in Nat \cup {Never}
          /\ hand \in Rx
          /\ alive \subseteq Keys /\ deleted \subseteq Keys

\* The first handler is onInit, which runs before the thread and may set timers.
Init == /\ now = 0
        /\ mTimers = {} /\ mTimerStoped = {} /\ mTimerKey = 0
        /\ rx = <<>>
        /\ pc = "handle" /\ hand = Other
        /\ sampled = 0 /\ limit = 0 /\ deadline = 0
        /\ alive = {} /\ deleted = {}

-----------------------------------------------------------------------------
\* What handlers do.
NewKey == LET k == (mTimerKey + 1) % KeyMod IN IF k = 0 THEN 1 ELSE k

\* Assumption: 2^32 timers are not set within the life of one, so that the key
\* given out is not the key of a timer or a timeout that still exists.
KeyFree(k) == k \notin Pending \cup KeysIn(rx) \cup KeysIn(<<hand>>)

SetTimer(d) ==
    /\ pc = "handle"
    /\ d > 0
    /\ now + d <= Horizon
    /\ KeyFree(NewKey)
    /\ mTimerKey' = NewKey
    /\ mTimers' = mTimers \cup {[key |-> NewKey, when |-> now + d]}
    /\ mTimerStoped' = mTimerStoped \cup {NewKey}
    /\ alive' = alive \cup {NewKey}
    /\ deleted' = deleted \ {NewKey}
    /\ UNCHANGED <<now, rx, loop>>

\* delTimer takes the key off the list of wanted timers and leaves the heap
\* and the queue alone.
DelTimer(k) ==
    /\ pc = "handle"
    /\ mTimerStoped' = mTimerStoped \ {k}
    /\ deleted' = deleted \cup {k}
    /\ UNCHANGED <<now, mTimers, mTimerKey, rx, loop, alive>>

\* The handler returns and the message is destroyed, with the para of a timeout.
Done == /\ pc = "handle"
        /\ pc' = "top"
        /\ alive' = alive \ KeysIn(<<hand>>)
        /\ hand' = Other
        /\ UNCHANGED <<now, timers, rx, sampled, limit, deadline, deleted>>

-----------------------------------------------------------------------------
\* The loop.

\* Mutant: timers are looked at only when no message is waiting.
ProcessWhenIdle ==
    /\ pc = "top"
    /\ IF mTimers = {} \/ rx # <<>>
       THEN pc' = "next" /\ UNCHANGED sampled
       ELSE pc' = "scan" /\ sampled' = now
    /\ UNCHANGED <<now, timers, rx, limit, deadline, hand, history>>

\* process() of the timer queue reads the clock, if it has a timer.
Process == /\ pc = "top"
           /\ IF mTimers = {}
              THEN pc' = "next" /\ UNCHANGED sampled
              ELSE pc' = "scan" /\ sampled' = now
           /\ UNCHANGED <<now, timers, rx, limit, deadline, hand, history>>

\* A timer on top of the heap: none is earlier (equal ones in any order).
\* Mutant: the heap is ordered the other way round.
LatestTop(t) == t \in mTimers /\ \A u \in mTimers : u.when <= t.when
Top(t) == t \in mTimers /\ \A u \in mTimers : t.when <= u.when

TimeOutOf(t) == [kind |-> "timeout", key |-> t.key, when |-> t.when]

\* Mutant: the parameter of a timer that is not wanted any more is forgotten.
FireOrForget(t) ==
    IF t.key \in mTimerStoped
    THEN /\ rx' = Append(rx, TimeOutOf(t))
         /\ mTimerStoped' = mTimerStoped \ {t.key}
         /\ UNCHANGED alive
    ELSE UNCHANGED <<rx, mTimerStoped, alive>>

\* Mutant: the key stays in the table after the timer has fired.
FireKeepsKey(t) ==
    IF t.key \in mTimerStoped
    THEN /\ rx' = Append(rx, TimeOutOf(t))
         /\ UNCHANGED <<mTimerStoped, alive>>
    ELSE /\ alive' = alive \ {t.key}
         /\ UNCHANGED <<rx, mTimerStoped>>

\* Mutant: the table is not looked at.
FireAlways(t) ==
    /\ rx' = Append(rx, TimeOutOf(t))
    /\ mTimerStoped' = mTimerStoped \ {t.key}
    /\ UNCHANGED alive

\* processTimer: a wanted timer becomes a message that owns the parameter, the
\* parameter of any other is freed.
ProcessTimer(t) ==
    IF t.key \in mTimerStoped
    THEN /\ rx' = Append(rx, TimeOutOf(t))
         /\ mTimerStoped' = mTimerStoped \ {t.key}
         /\ UNCHANGED alive
    ELSE /\ alive' = alive \ {t.key}
         /\ UNCHANGED <<rx, mTimerStoped>>

Pop(t) == /\ pc = "scan"
          /\ Top(t)
          /\ t.when <= sampled
          /\ mTimers' = mTimers \ {t}
          /\ ProcessTimer(t)
          /\ UNCHANGED <<now, mTimerKey, loop, deleted>>

Scanned == /\ pc = "scan"
           /\ \A t \in mTimers : Top(t) => t.when > sampled
           /\ pc' = "next"
           /\ UNCHANGED <<now, timers, rx, sampled, limit, deadline, hand, history>>

\* msTillNextTimer reads the clock again; process() caps what it returns.
TillNext(t) == IF now > t.when THEN 0 ELSE t.when - now
Capped(ms) == IF ms > StepMax THEN StepMax ELSE ms

MsTillNextTimer ==
    /\ pc = "next"
    /\ \/ mTimers = {} /\ limit' = StepMax
       \/ \E t \in mTimers : Top(t) /\ limit' = Capped(TillNext(t))
    /\ pc' = "get"
    /\ UNCHANGED <<now, timers, rx, sampled, deadline, hand, history>>

\* getNext(ms) counts its limit from a third reading; 0 means no limit.
GetNext == /\ pc = "get"
           /\ pc' = "wait"
           /\ deadline' = IF limit = 0 THEN Never ELSE now + limit
           /\ UNCHANGED <<now, timers, rx, sampled, limit, hand, history>>

Receive == /\ pc = "wait"
           /\ rx # <<>>
           /\ hand' = Head(rx)
           /\ rx' = Tail(rx)
           /\ pc' = "handle"
           /\ UNCHANGED <<now, timers, sampled, limit, deadline, history>>

TimedOut == /\ pc = "wait"
            /\ deadline # Never
            /\ now >= deadline
            /\ pc' = "top"
            /\ UNCHANGED <<now, timers, rx, sampled, limit, deadline, hand, history>>

-----------------------------------------------------------------------------
\* Other threads, and the clock.  After the horizon time passes only while it
\* is waited for with timers pending.
Arrive == /\ Len(rx) < MaxRx
          /\ rx' = Append(rx, Other)
          /\ UNCHANGED <<now, timers, loop, history>>

Tick == /\ \/ now < Horizon
           \/ pc = "wait" /\ rx = <<>> /\ mTimers # {} /\ now < deadline
        /\ now' = now + 1
        /\ UNCHANGED <<timers, rx, loop, history>>

Step == \/ Done \/ Process \/ Scanned \/ MsTillNextTimer \/ GetNext
        \/ Receive \/ TimedOut
        \/ \E t \in mTimers : Pop(t)

Next == \/ Step
        \/ \E d \in Delays : SetTimer(d)
        \/ \E k \in Keys : DelTimer(k)
        \/ Arrive
        \/ Tick

Spec == Init /\ [][Next]_vars

\* The thread runs whenever it can, handlers return, and time passes.
FairSpec == Spec /\ WF_vars(Step) /\ WF_vars(Tick)
-----------------------------------------------------------------------------
\* Timeouts are queued in the order they fall due and never before they do,
\* although the clock runs while process() pops and handlers set new timers.
TimeoutsInOrder ==
    \A i \in DOMAIN rx :
        rx[i].kind = "timeout" =>
            /\ rx[i].when <= now
            /\ \A j \in DOMAIN rx :
                  i < j /\ rx[j].kind = "timeout" => rx[i].when <= rx[j].when

\* A parameter has exactly one owner from setTimer until it is freed: the heap,
\* a queued timeout or the timeout being handled; nothing is leaked by delTimer
\* and nothing is freed twice.
ParaOwnedOnce ==
    /\ alive = Pending \cup KeysIn(rx) \cup KeysIn(<<hand>>)
    /\ Pending \cap KeysIn(rx) = {}
    /\ KeysIn(<<hand>>) \cap (Pending \cup KeysIn(rx)) = {}
    /\ \A i, j \in DOMAIN rx :
          rx[i].kind = "timeout" /\ rx[j].kind = "timeout" /\ rx[i].key = rx[j].key
             => i = j

\* What the order of the timeouts rests on: the clock has passed the sampled time,
\* and whatever is still in the heap is no earlier than what has left it.
HeapIsLater ==
    /\ sampled <= now
    /\ \A t \in mTimers : \A i \in DOMAIN rx :
          rx[i].kind = "timeout" => rx[i].when <= t.when

\* No two timers of the heap have the same key.
KeysUnique == \A t, u \in mTimers : t.key = u.key => t = u

\* Between two messages the task holds none.
HandEmpty == pc # "handle" => hand = Other

\* The table of wanted timers holds the keys of exactly the timers in the heap
\* that were not deleted: no entry outlives its timer.
TableFollowsHeap == mTimerStoped = Pending \ deleted

\* A timer deleted while it is pending is never queued as a timeout.
DeletedStaysSilent ==
    [][\A k \in deleted : k \in KeysIn(rx') => k \in KeysIn(rx)]_vars

\* The task waits without limit (see WaitBounded) and there is nothing to wake it.
Stuck == pc = "wait" /\ deadline = Never /\ rx = <<>>

\* However much traffic there is, a timer that is set fires or is deleted, unless
\* the task gets stuck: a queue that is never empty does not starve the timers.
DueTimerFires ==
    \A k \in Keys : k \in mTimerStoped ~> (k \notin mTimerStoped \/ Stuck)

\* "The longest wait in the message queue is the interval to the next timer":
\* the wait has a limit.
WaitBounded == pc = "wait" => deadline # Never
=============================================================================

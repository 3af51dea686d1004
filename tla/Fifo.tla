-------------------------------- MODULE Fifo --------------------------------
(***************************************************************************)
(* AbstractFifo and Fifo<Msg>: the queue behind every hand-over between    *)
(* threads of the framework (kernel, tasks, manager).  A call holds mMutex *)
(* from its lock to its return or to Condition::wait, so one critical      *)
(* section is one action.  What interleaves is everything around it: a     *)
(* caller that has not got the mutex yet, a waiter, a waiter that has been *)
(* signalled or timed out and must take the mutex again.                   *)
(***************************************************************************)
EXTENDS Integers, Sequences, SequencesExt, FiniteSets

CONSTANTS Consumers,   \* threads that call getNext
          Messages,    \* message pointers producers may add
          NoMsg,       \* the null pointer
          SizeMod      \* 2^(width of unsigned long): mSize is modulo this

ASSUME FifoAssumption ==
    /\ IsFiniteSet(Consumers) /\ IsFiniteSet(Messages)
    /\ NoMsg \notin Messages
    /\ SizeMod \in Nat /\ SizeMod > Cardinality(Messages) + 1

VARIABLES mFifo,       \* the deque
          mSize,       \* the counter kept beside it
          pc,          \* pc[c]: where c is in getNext
          mode,        \* mode[c]: the kind of getNext c is in
          ret,         \* ret[c]: what c's last getNext returned
          aborted,     \* an assert() of the code has failed
          cleared      \* clear() has been called

vars == <<mFifo, mSize, pc, mode, ret, aborted, cleared>>

\* idle: not in getNext.  locking: will take the mutex (fresh or woken).
\* waiting: blocked in the condition.  timedout: its wait ended with ETIMEDOUT.
PCs == {"idle", "locking", "waiting", "timedout"}
Modes == {"none", "blocking", "timed"}

At(l) == {c \in Consumers : pc[c] = l}
NoSize == SizeMod - 1

TypeOK == /\ mFifo \in Seq(Messages)
          /\ mSize \in 0..SizeMod - 1
          /\ pc \in [Consumers -> PCs]
          /\ mode \in [Consumers -> Modes]
          /\ ret \in [Consumers -> Messages \cup {NoMsg}]
          /\ aborted \in BOOLEAN /\ cleared \in BOOLEAN

Init == /\ mFifo = <<>>
        /\ mSize = 0
        /\ pc = [c \in Consumers |-> "idle"]
        /\ mode = [c \in Consumers |-> "none"]
        /\ ret = [c \in Consumers |-> NoMsg]
        /\ aborted = FALSE /\ cleared = FALSE

-----------------------------------------------------------------------------
\* Condition::signal wakes one waiter, whichever the system picks; without
\* waiters it does nothing.
Signal == \/ /\ At("waiting") = {}
             /\ UNCHANGED pc
          \/ \E w \in At("waiting") : pc' = [pc EXCEPT ![w] = "locking"]

\* Mutant: the producer signals only when the queue was empty.
AddSignalsWhenEmpty(m) == /\ ~aborted
                          /\ m \notin ToSet(mFifo)
                          /\ mFifo' = Append(mFifo, m)
                          /\ mSize' = (mSize + 1) % SizeMod
                          /\ IF mFifo = <<>> THEN Signal ELSE UNCHANGED pc
                          /\ UNCHANGED <<mode, ret, aborted, cleared>>

\* Fifo::add.  A message is owned by the queue until it is taken.
Add(m) == /\ ~aborted
          /\ m \notin ToSet(mFifo)
          /\ mFifo' = Append(mFifo, m)
          /\ mSize' = (mSize + 1) % SizeMod
          /\ Signal
          /\ UNCHANGED <<mode, ret, aborted, cleared>>

\* getNext(ms): a limit of 0 is the unlimited getNext().
ModeOf(ms) == IF ms = 0 THEN "blocking" ELSE "timed"

Call(c, ms) == /\ ~aborted
               /\ pc[c] = "idle"
               /\ pc' = [pc EXCEPT ![c] = "locking"]
               /\ mode' = [mode EXCEPT ![c] = ModeOf(ms)]
               /\ UNCHANGED <<mFifo, mSize, ret, aborted, cleared>>

Return(c, r) == /\ pc' = [pc EXCEPT ![c] = "idle"]
                /\ mode' = [mode EXCEPT ![c] = "none"]
                /\ ret' = [ret EXCEPT ![c] = r]

\* Mutant: the counter is not kept by the consumer.
TakeUncounted(c) == /\ ~aborted
                    /\ pc[c] = "locking"
                    /\ mFifo # <<>>
                    /\ mFifo' = Tail(mFifo)
                    /\ Return(c, Head(mFifo))
                    /\ UNCHANGED <<mSize, aborted, cleared>>

\* The mutex is taken and there is a message: pop it, assert(mSize != 0).
Take(c) == /\ ~aborted
           /\ pc[c] = "locking"
           /\ mFifo # <<>>
           /\ IF mSize = 0
              THEN /\ aborted' = TRUE
                   /\ UNCHANGED <<mFifo, mSize, pc, mode, ret, cleared>>
              ELSE /\ mFifo' = Tail(mFifo)
                   /\ mSize' = mSize - 1
                   /\ Return(c, Head(mFifo))
                   /\ UNCHANGED <<aborted, cleared>>

\* The mutex is taken and the queue is empty: wait, releasing the mutex.
Wait(c) == /\ ~aborted
           /\ pc[c] = "locking"
           /\ mFifo = <<>>
           /\ pc' = [pc EXCEPT ![c] = "waiting"]
           /\ UNCHANGED <<mFifo, mSize, mode, ret, aborted, cleared>>

\* Mutant: whoever wakes to an empty queue gives up, in getNext() too.
ExpiredInAnyMode(c) == /\ ~aborted
                       /\ pc[c] = "locking"
                       /\ mFifo = <<>>
                       /\ Return(c, NoMsg)
                       /\ UNCHANGED <<mFifo, mSize, aborted, cleared>>

\* A timed call that finds the queue empty after its limit returns 0 ...
Expired(c) == /\ ~aborted
              /\ pc[c] = "locking"
              /\ mode[c] = "timed"
              /\ mFifo = <<>>
              /\ Return(c, NoMsg)
              /\ UNCHANGED <<mFifo, mSize, aborted, cleared>>

\* ... and so does one whose wait timed out, whatever the queue holds by then.
TimeOut(c) == /\ ~aborted
              /\ pc[c] = "waiting"
              /\ mode[c] = "timed"
              /\ pc' = [pc EXCEPT ![c] = "timedout"]
              /\ UNCHANGED <<mFifo, mSize, mode, ret, aborted, cleared>>

ReturnTimedOut(c) == /\ ~aborted
                     /\ pc[c] = "timedout"
                     /\ Return(c, NoMsg)
                     /\ UNCHANGED <<mFifo, mSize, aborted, cleared>>

\* A condition may wake a waiter that nobody signalled.
SpuriousWakeup(c) == /\ ~aborted
                     /\ pc[c] = "waiting"
                     /\ pc' = [pc EXCEPT ![c] = "locking"]
                     /\ UNCHANGED <<mFifo, mSize, mode, ret, aborted, cleared>>

\* Fifo::clear deletes every message and sets mSize = 0UL - 1.
Clear == /\ ~aborted
         /\ mFifo' = <<>>
         /\ mSize' = NoSize
         /\ cleared' = TRUE
         /\ UNCHANGED <<pc, mode, ret, aborted>>

\* messageAvailable asserts mSize != NoSize before it looks at the deque.
MessageAvailable(c) == /\ ~aborted
                       /\ pc[c] = "idle"
                       /\ mSize = NoSize
                       /\ aborted' = TRUE
                       /\ UNCHANGED <<mFifo, mSize, pc, mode, ret, cleared>>

Acquire(c) == Take(c) \/ Wait(c) \/ Expired(c)

Next == \/ \E m \in Messages : Add(m)
        \/ \E c \in Consumers : \/ \E ms \in {0, 1} : Call(c, ms)
                                \/ Take(c)
                                \/ Wait(c)
                                \/ Expired(c)
                                \/ TimeOut(c)
                                \/ ReturnTimedOut(c)
                                \/ SpuriousWakeup(c)
                                \/ MessageAvailable(c)
        \/ Clear

Spec == Init /\ [][Next]_vars

\* A thread that asks for the mutex gets it: no critical section blocks
\* while it holds mMutex.
Fairness == \A c \in Consumers : WF_vars(Acquire(c)) /\ WF_vars(ReturnTimedOut(c))

FairSpec == Spec /\ Fairness
-----------------------------------------------------------------------------
\* No wakeup is lost (add signals one waiter per message, under the mutex): as
\* long as somebody sleeps in getNext, every queued message has a thread on its
\* way to fetch it, whoever stole, timed out or woke spuriously in between.
NoLostWakeup ==
    At("waiting") # {} => Len(mFifo) <= Cardinality(At("locking"))

\* The counter that empty() and size() report is the length of the deque, until
\* clear() is called.
SizeIsLength == ~cleared => mSize = Len(mFifo)

\* Until then assert(mSize != 0) in getNext and assert(mSize != NoSize) in
\* messageAvailable hold.
AssertsHold == ~cleared => ~aborted

\* "Delete all elements in the queue": clear() leaves a queue that works.
NoAssertFailure == ~aborted

\* No message is in the queue twice (its pointer would be handed out twice);
\* with it the queue is no longer than the number of messages, so that the
\* counter cannot wrap.
Distinct == \A i, j \in 1..Len(mFifo) : mFifo[i] = mFifo[j] => i = j

\* A thread asleep in getNext() does not sleep on while messages stay
\* available: it is woken, or the others empty the queue (or an assertion fails).
WaiterIsServed ==
    \A c \in Consumers :
        (pc[c] = "waiting" /\ mFifo # <<>>)
            ~> (pc[c] # "waiting" \/ mFifo = <<>> \/ aborted)

\* A thread has a kind of call exactly while it is in one, and only a timed
\* call times out.
ModeMatchesPC ==
    \A c \in Consumers : /\ mode[c] = "none" <=> pc[c] = "idle"
                         /\ pc[c] = "timedout" => mode[c] = "timed"

\* The calls, the order of the messages and their single delivery are those of
\* MsgQueue; the mutex, the wakeups and the counter are hidden.
Queue == INSTANCE MsgQueue WITH queue <- mFifo, call <- mode

ImplementsQueue == Queue!Spec
=============================================================================

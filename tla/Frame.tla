--------------------------------- MODULE Frame ---------------------------------
(***************************************************************************)
(* The running framework: the manager (TFRAMEManager: main thread), the    *)
(* kernel thread (TFRAMEControl over a TTaskSelector) and one thread for   *)
(* each task instance (TAbstractTask), with a queue each.                  *)
(*                                                                         *)
(*   tasks   --sendMsg-->  kq  --selector-->  rx[i]       messages         *)
(*   manager --add-->      kq, rx[i]                      requests         *)
(*   kernel, tasks --post--> mq                           replies          *)
(*                                                                         *)
(* A queue is its sequence of messages (Fifo is the module for the calls); *)
(* receiving and handling are separate steps, because everything else may  *)
(* happen in between.  Registrations are complete before the threads       *)
(* start, and nothing unregisters or shuts down an instance.               *)
(***************************************************************************)
EXTENDS Integers, Sequences, SequencesExt, FiniteSets

CONSTANTS Tasks,      \* task ids
          Insts,      \* instance ids: 1..mMaxInst, in the order of creation
          TaskOf,     \* TaskOf[i]: the task of instance i
          Ghost,      \* a task id that nobody registered
          Addresses,  \* [msgType, task, inst] handlers send to
          Commands,   \* [type, task, inst] clients send, as a struct Command
          MayFail,    \* instances whose handlers may fail or throw
          MaxSends,   \* bound: MaxSends[i] messages are sent by instance i
          MaxTrans    \* bound: the manager starts no more transactions

NoInst == 0
All == -1
ASSUME FrameAssumption ==
    /\ IsFiniteSet(Insts) /\ Insts = 1..Cardinality(Insts)
    /\ MaxSends \in [Insts -> Nat]
    /\ MaxTrans \in Nat /\ MaxTrans > Cardinality(Insts)
    /\ TaskOf \in [Insts -> Tasks]
    /\ Ghost \notin Tasks
    /\ MayFail \subseteq Insts
    /\ Addresses \subseteq [msgType : {"single", "broadcast", "multicast"},
                            task : Tasks \cup {Ghost}, inst : Insts \cup {NoInst}]
    /\ Commands \subseteq [type : 0..2, task : Tasks \cup {Ghost, All},
                           inst : Insts \cup {All}]

VARIABLES kq,          \* mFifo of the kernel
          mq,          \* mFifo of the manager
          rx,          \* rx[i]: mTaskRxFifo of instance i
          hand,        \* hand[i]: what process() of i is handling
          mTaskList, served, last,   \* the selector
          running,     \* instances whose thread runs
          mng,         \* where the manager is
          booted,      \* instances Run() has started
          mTransID,
          sent,        \* sent[i]: messages instance i has sent
          seen,        \* seen[i][j]: the last message of j that i received
          closed,      \* messages freed or handed on
          answered,    \* transactions whose reply the manager has processed
          dropped,     \* transactions whose handler threw an exception
          started,     \* instances whose preTaskStart has been called
          twice        \* some message was deleted twice

selector == <<mTaskList, served, last>>
queues == <<kq, mq, rx>>
boot == <<running, mng, booted>>
history == <<sent, seen, closed, twice, dropped>>
vars == <<queues, hand, selector, boot, mTransID, history, answered, started>>

\* Messages carry their sender and how many it had sent; copy marks a clone.
Msgs == [kind : {"msg"}, msgType : {"single", "broadcast", "multicast"},
         task : Tasks \cup {Ghost}, inst : Insts \cup {NoInst},
         from : Insts, n : Nat, copy : BOOLEAN]
\* Requests of the manager; a reply adds the status and who gave it (0: kernel).
Requests == [kind : {"event"}, ev : {"INIT", "RELOAD", "STATUES", "SHUTDOWN"},
             trans : Nat]
Replies == [kind : {"reply"}, ev : {"INIT", "RELOAD", "STATUES", "SHUTDOWN"},
            trans : Nat, status : {1, 2}, from : Insts \cup {0}]
TimeOut == [kind |-> "timeout"]
Nothing == [kind |-> "nothing"]
Traffic == Msgs \cup Requests \cup {TimeOut}

\* What is in the queues and in hand, and the history of it.
TypeOK == /\ kq \in Seq(Traffic)
          /\ mq \in Seq(Replies)
          /\ rx \in [Insts -> Seq(Traffic)]
          /\ hand \in [Insts -> Traffic \cup {Nothing}]
          /\ running \subseteq Insts
          /\ mng \in {"load", "boot", "get", "recv"}
          /\ booted \in Insts \cup {0}
          /\ mTransID \in 0..MaxTrans
          /\ sent \in [Insts -> Nat]
          /\ seen \in [Insts -> [Insts -> Nat]]
          /\ closed \subseteq Insts \X Nat
          /\ answered \subseteq Nat /\ dropped \subseteq Nat
          /\ started \subseteq Insts
          /\ twice \in BOOLEAN

InstsOf(t) == SelectSeq([i \in Insts |-> i], LAMBDA i : TaskOf[i] = t)
Registered == {TaskOf[i] : i \in Insts}

\* Init() has registered every instance; the threads have not started.
Init == /\ kq = <<>> /\ mq = <<>>
        /\ rx = [i \in Insts |-> <<>>]
        /\ hand = [i \in Insts |-> Nothing]
        /\ mTaskList = [t \in Registered |-> [inst |-> InstsOf(t), instpos |-> 0]]
        /\ served = [t \in Tasks \cup {Ghost} |-> {}]
        /\ last = [to |-> {}, ret |-> FALSE, deleted |-> FALSE]
        /\ running = {} /\ mng = "load" /\ booted = 0
        /\ mTransID = 0
        /\ sent = [i \in Insts |-> 0]
        /\ seen = [i \in Insts |-> [j \in Insts |-> 0]]
        /\ closed = {} /\ answered = {} /\ dropped = {}
        /\ started = {}
        /\ twice = FALSE

Selector == INSTANCE TaskSelector
    WITH Tasks <- Tasks \cup {Ghost}, Garbage <- {0}, used <- Insts,
         mInstList <- [i \in Insts |-> [taskid |-> TaskOf[i], shuttingDown |-> FALSE]],
         registeredTaskAmount <- Cardinality(Registered),
         registeredInstAmount <- Cardinality(Insts)

-----------------------------------------------------------------------------
\* Task instances.

Stamp(m) == <<m.from, m.n>>
NewMsg(i, a) == [kind |-> "msg", msgType |-> a.msgType, task |-> a.task,
                 inst |-> a.inst, from |-> i, n |-> sent[i] + 1, copy |-> FALSE]

\* sendMsg gives the message to the kernel's queue.
SendMsg(i, a) == /\ sent[i] < MaxSends[i]
                 /\ kq' = Append(kq, NewMsg(i, a))
                 /\ sent' = [sent EXCEPT ![i] = @ + 1]

\* A handler of the application sends: onInit, while the manager is in Init() and
\* makes the instances in order, or any other in the thread of the task.
Send(i, a) == /\ \/ mng = "load" /\ \A j \in Insts : j > i => sent[j] = 0
                 \/ hand[i] # Nothing
              /\ SendMsg(i, a)
              /\ UNCHANGED <<mq, rx, hand, selector, boot, mTransID, seen,
                             closed, twice, dropped, answered, started>>

\* procMsg(auto_ptr) passes the message it was given on: it is the sender's now.
Forward(i, a) == /\ hand[i].kind = "msg"
                 /\ SendMsg(i, a)
                 /\ closed' = IF hand[i].copy THEN closed
                              ELSE closed \cup {Stamp(hand[i])}
                 /\ hand' = [hand EXCEPT ![i] = Nothing]
                 /\ UNCHANGED <<mq, rx, selector, boot, mTransID, seen,
                                twice, dropped, answered, started>>

\* A timer of the task falls due.  One outstanding timeout stands for several, and
\* one whose handler can send no more (MaxSends) is left out.
Expire(i) == /\ i \in running
             /\ hand[i] = Nothing
             /\ sent[i] < MaxSends[i]
             /\ TimeOut \notin ToSet(rx[i])
             /\ rx' = [rx EXCEPT ![i] = Append(@, TimeOut)]
             /\ UNCHANGED <<kq, mq, hand, selector, boot, mTransID, history,
                            answered, started>>

Receive(i) == /\ i \in running
              /\ hand[i] = Nothing
              /\ rx[i] # <<>>
              /\ hand' = [hand EXCEPT ![i] = Head(rx[i])]
              /\ rx' = [rx EXCEPT ![i] = Tail(@)]
              /\ IF Head(rx[i]).kind = "msg"
                 THEN seen' = [seen EXCEPT ![i][Head(rx[i]).from] = Head(rx[i]).n]
                 ELSE UNCHANGED seen
              /\ UNCHANGED <<kq, mq, selector, boot, mTransID, sent, closed,
                             twice, dropped, answered, started>>

\* The handler of a message or timeout returns, or throws, and the message is
\* destroyed.
Finish(i) == /\ hand[i].kind \in {"msg", "timeout"}
             /\ hand' = [hand EXCEPT ![i] = Nothing]
             /\ closed' = IF hand[i].kind = "msg" /\ ~hand[i].copy
                          THEN closed \cup {Stamp(hand[i])} ELSE closed
             /\ UNCHANGED <<queues, selector, boot, mTransID, sent, seen, twice,
                            dropped, answered, started>>

\* What onStart, onReload, onShutdown and onStatues may put into the reply.
StatusOf(i, ev) == IF ev # "STATUES" /\ i \in MayFail THEN {1, 2} ELSE {1}

Reply(i, req, s) == [kind |-> "reply", ev |-> req.ev, trans |-> req.trans,
                     status |-> s, from |-> i]

\* onStart begins with preTaskStart.
Called(i) == started' = IF hand[i].ev = "INIT" THEN started \cup {i} ELSE started

\* Mutant: a reload is not answered.
FinishQuietly(i) ==
    /\ hand[i].kind = "event"
    /\ \E s \in StatusOf(i, hand[i].ev) :
          /\ mq' = IF hand[i].ev = "RELOAD" THEN mq ELSE Append(mq, Reply(i, hand[i], s))
    /\ hand' = [hand EXCEPT ![i] = Nothing]
    /\ Called(i)
    /\ UNCHANGED <<kq, rx, selector, boot, mTransID, history, answered>>

\* Every request is answered to the manager.
FinishEvent(i) ==
    /\ hand[i].kind = "event"
    /\ \E s \in StatusOf(i, hand[i].ev) :
          /\ mq' = Append(mq, Reply(i, hand[i], s))
    /\ hand' = [hand EXCEPT ![i] = Nothing]
    /\ Called(i)
    /\ UNCHANGED <<kq, rx, selector, boot, mTransID, history, answered>>

\* An exception is caught in TTaskThread::process(): no reply, the thread goes on.
Throw(i) == /\ i \in MayFail
            /\ hand[i].kind = "event"
            /\ dropped' = dropped \cup {hand[i].trans}
            /\ hand' = [hand EXCEPT ![i] = Nothing]
            /\ Called(i)
            /\ UNCHANGED <<queues, selector, boot, mTransID, sent, seen, closed,
                           twice, answered>>

-----------------------------------------------------------------------------
\* The kernel thread: TFRAMEControl::mainLoop.

Deliver(m) == [m EXCEPT !.copy = @ \/ m.msgType # "single"]

\* Mutant: a message the selector refuses is not deleted.
FreedBySelector(m) == IF last'.deleted THEN closed \cup {Stamp(m)} ELSE closed
Freed(m) == IF last'.deleted \/ ~last'.ret THEN closed \cup {Stamp(m)} ELSE closed

\* Mutant: the kernel serves the newest message first.
TakeNewest(m) == kq # <<>> /\ m = Last(kq) /\ kq' = Front(kq)
Take(m) == kq # <<>> /\ m = Head(kq) /\ kq' = Tail(kq)

\* The selector delivers the message or copies of it; one it refuses is deleted.
Dispatch ==
    /\ mng # "load"
    /\ kq # <<>>
    /\ \E m \in ToSet(kq) :
          /\ Take(m)
          /\ m.kind = "msg"
          /\ Selector!Add([msgType |-> m.msgType, task |-> m.task, inst |-> m.inst])
          /\ rx' = [i \in Insts |-> IF i \in last'.to THEN Append(rx[i], Deliver(m))
                                                     ELSE rx[i]]
          /\ closed' = Freed(m)
          /\ twice' = (twice \/ (last'.deleted /\ ~last'.ret))
    /\ UNCHANGED <<mq, hand, boot, mTransID, sent, seen, dropped, answered, started>>

\* onInit replies; the statements after its return are never reached.
KernelInit ==
    /\ mng # "load"
    /\ kq # <<>>
    /\ Head(kq).kind = "event"
    /\ kq' = Tail(kq)
    /\ mq' = Append(mq, Reply(0, Head(kq), 1))
    /\ UNCHANGED <<rx, hand, selector, boot, mTransID, history, answered, started>>

-----------------------------------------------------------------------------
\* The manager.

Request(ev, k) == [kind |-> "event", ev |-> ev, trans |-> k]

\* Run() starts the kernel thread with a request of its own ...
StartKernel == /\ mng = "load"
               /\ mTransID < MaxTrans
               /\ mTransID' = mTransID + 1
               /\ kq' = Append(kq, Request("INIT", mTransID + 1))
               /\ mng' = "boot"
               /\ UNCHANGED <<mq, rx, hand, selector, running, booted, history,
                              answered, started>>

\* ... and the instances, one by one: a request, then the thread.
StartTask == /\ mng = "boot"
             /\ booted + 1 \in Insts
             /\ mTransID < MaxTrans
             /\ mTransID' = mTransID + 1
             /\ booted' = booted + 1
             /\ rx' = [rx EXCEPT ![booted + 1] = Append(@, Request("INIT", mTransID + 1))]
             /\ running' = running \cup {booted + 1}
             /\ UNCHANGED <<kq, mq, hand, selector, mng, history, answered, started>>

EnterLoop == /\ mng = "boot"
             /\ booted + 1 \notin Insts
             /\ mng' = "get"
             /\ UNCHANGED <<queues, hand, selector, running, booted, mTransID,
                            history, answered, started>>

\* One turn of the loop: a reply, if there is one within the limit of the wait,
\* is logged or sent to the client ...
GetReply == /\ mng = "get"
            /\ mng' = "recv"
            /\ IF mq = <<>>
               THEN UNCHANGED <<mq, answered>>
               ELSE /\ mq' = Tail(mq)
                    /\ answered' = answered \cup {Head(mq).trans}
            /\ UNCHANGED <<kq, rx, hand, selector, running, booted, mTransID,
                           history, started>>

NoCommand == /\ mng = "recv"
             /\ mng' = "get"
             /\ UNCHANGED <<queues, hand, selector, running, booted, mTransID,
                            history, answered, started>>

\* ... and a datagram is taken for a struct Command.  What the client program
\* sends is text: as a struct it names no task, so for it c.task is Ghost.
Addressed(c) == {i \in Insts : \/ c.task = All
                               \/ c.task = TaskOf[i] /\ c.inst \in {All, i}}
EventOf(c) == IF c.type = 0 THEN "RELOAD" ELSE "STATUES"

\* Mutant: one transaction id for all instances the command addresses.
TransOfCommand(c, i) == mTransID + 1
\* The instances addressed are asked in the order of the list.
TransOf(c, i) == mTransID + Cardinality({j \in Addressed(c) : j <= i})

RecvCommand(c) ==
    /\ mng = "recv"
    /\ mTransID + Cardinality(Addressed(c)) <= MaxTrans
    /\ mng' = "get"
    /\ mTransID' = mTransID + Cardinality(Addressed(c))
    /\ rx' = [i \in Insts |-> IF i \in Addressed(c)
                             THEN Append(rx[i], Request(EventOf(c), TransOf(c, i)))
                             ELSE rx[i]]
    /\ UNCHANGED <<kq, mq, hand, selector, running, booted, history, answered,
                   started>>

-----------------------------------------------------------------------------
Kernel == Dispatch \/ KernelInit
Task(i) == Receive(i) \/ Finish(i) \/ FinishEvent(i) \/ Throw(i)
Manager == StartKernel \/ StartTask \/ EnterLoop \/ GetReply \/ NoCommand

Next == \/ Kernel
        \/ Manager
        \/ \E i \in Insts : Task(i) \/ Expire(i)
        \/ \E i \in Insts, a \in Addresses : Send(i, a) \/ Forward(i, a)
        \/ \E c \in Commands : RecvCommand(c)

Spec == Init /\ [][Next]_vars

\* Every thread runs, the wait of the manager is limited, handlers return.
FairSpec == /\ Spec
            /\ WF_vars(Kernel)
            /\ \A i \in Insts : WF_vars(Task(i))
            /\ WF_vars(Manager)
-----------------------------------------------------------------------------
\* What a message is known by: a request and its reply by their transaction, a
\* message by its sender and number; a copy and a timeout by nothing.
Nameless == <<0, 0>>
Name(m) == IF m.kind \in {"event", "reply"} THEN <<0, m.trans>>
           ELSE IF m.kind = "msg" /\ ~m.copy THEN Stamp(m) ELSE Nameless

\* Where what is known by x is: in a queue, in hand, or in the past.
Places(x) ==
    LET positions(s) == {n \in DOMAIN s : Name(s[n]) = x}
    IN UNION {{<<"kernel", 0, n>> : n \in positions(kq)},
              {<<"manager", 0, n>> : n \in positions(mq)},
              UNION {{<<"queue", i, n>> : n \in positions(rx[i])} : i \in Insts},
              {<<"hand", i, 1>> : i \in {j \in Insts : Name(hand[j]) = x}},
              {<<"closed", 0, 1>> : y \in closed \cap {x}},
              {<<"answered", 0, 1>> : k \in {l \in answered : <<0, l>> = x}},
              {<<"dropped", 0, 1>> : k \in {l \in dropped : <<0, l>> = x}}}

\* From sendMsg to its destruction a message has one owner: a queue, a handler,
\* or nobody any more.  Nothing is lost, leaked or delivered twice, whatever the
\* selector makes of its address; of a distributed message no instance gets
\* two copies.
OneOwner ==
    /\ \A i \in Insts : \A n \in 1..sent[i] : Cardinality(Places(<<i, n>>)) = 1
    /\ \A i \in Insts : \A k, l \in DOMAIN rx[i] :
          /\ rx[i][k].kind = "msg" /\ rx[i][l].kind = "msg"
          /\ Stamp(rx[i][k]) = Stamp(rx[i][l])
          => k = l

\* A transaction of the manager is in one place: asked, being handled, answered,
\* closed, or dropped by an exception; two requests never share an id.
TransactionOnce == \A k \in 1..mTransID : Cardinality(Places(<<0, k>>)) = 1

IsFrom(m, j) == m.kind = "msg" /\ m.from = j

\* What one instance sends reaches another in the order it was sent, whether it
\* was addressed by instance, in turn or as a copy, and however many threads the
\* messages pass.
PairOrder ==
    \A i, j \in Insts :
        LET s == rx[i] \o kq
            fromJ == {k \in DOMAIN s : IsFrom(s[k], j)}
        IN /\ \A k \in fromJ : s[k].n > seen[i][j]
           /\ \A k, l \in fromJ : k < l => s[k].n < s[l].n

\* Every request of the manager is answered and the answer processed: starts,
\* and commands, under any traffic between the tasks, unless its handler throws.
RequestsAnswered ==
    \A k \in 1..MaxTrans : mTransID >= k ~> k \in answered \cup dropped

\* Every message sent is handled, handed on or refused and deleted.
MessagesSettle ==
    \A i \in Insts : \A n \in 1..MaxSends[i] : sent[i] >= n ~> <<i, n>> \in closed

\* "The task has been loaded, before it processes messages": the request to
\* start is the first thing an instance handles.
InitFirst == \A i \in Insts : hand[i].kind = "msg" => i \in started

\* The kernel destroys a message: once.
FreedOnce == ~twice
=============================================================================

# xframe in TLA+

xframe is a C++ framework for communication programs. An application registers
task classes; the framework reads from its configuration how many instances of
each to create, gives each instance a thread, a queue and timers, and carries
messages between instances through a kernel thread. A manager, in the main
thread, starts everything and answers commands that arrive as UDP datagrams.

This directory holds TLA+ models of that machinery, TLC runs over small
instances of them, and proofs checked by TLAPS. Paths below are relative to
the repository's root. `PROJECT.json` names the source lines of every definition.

## 1. Inventory

### 1.1 Components

| Component | State | Operations | Model |
|---|---|---|---|
| Message queue: `AbstractFifo`, `Fifo<Msg>` (`comserv/fifoabstract.C`, `include/comserv/fifo.h`) | a deque of message pointers, a counter `mSize` beside it, a mutex, a condition | `add`, `getNext()`, `getNext(ms)`, `messageAvailable`, `size`, `empty`, `clear` | `Fifo`, `MsgQueue`, `FifoProofs` |
| Task selector: `TTaskSelector` (`kernel/taskselector.C`) | hash table instance -> item, hash table task -> (list of instances, position), two counters | `registerTask`, `shutdownInst`, `shutdownTask`, `unregisterInst`, `unregisterTask`, `add` (single, multicast, broadcast) | `TaskSelector`, `TaskSelectorProofs` |
| Timers and main loop of a task: `TaskTimerQueue`, `TAbstractTask::process` (`kernel/timerqueue.C`, `include/kernel/timerqueue.h`, `task/abstracttask.C`) | heap of timers, table of wanted keys, last key, the task's queue, the message in hand | `setTimer`, `delTimer`, one turn of `process()` | `TimerQueue`, `TimerQueueProofs` |
| Kernel: `TFRAMEControl`, `TKernalThread` (`kernel/framectrl.C`) | a queue, the selector, a flag `shutdown` nobody acts on | `add`, `post`, `postTo`, `mainLoop`, `onInit` | `Frame` |
| Task instances: `TAbstractTask`, `TTaskThread` (`task/`) | a queue, timers, the handlers of the application | `init`, `process`, `sendMsg`, `postEvent`, `onStart`, `onReload`, `onStatues`, `onShutdown` | `Frame` |
| Manager: `TFRAMEManager` (`framemng.C`) | a queue, the instances in order of creation, `mTransID`, a UDP socket | `Init`, `Run` | `Frame` |
| Client: `xclient/main.C` | none that matters | sends a command, prints answers | `Frame` (the form of its commands) |
| Readers-writer mutex: `RWMutex` (`comserv/threadmutexRW.C`) | counts of readers and pending writers, a writer's flag, two conditions | `readlock`, `writelock`, `lock`, `unlock` | `RWMutex`, `ReadersWriters`, `ThreadingProofs` |
| Thread object: `ThreadIf` (`comserv/threadif.C`) | id of the thread to be joined, shutdown flag with its mutex and condition | `run`, `join`, `detach`, `shutdown`, `waitForShutdown`, destructor | `ThreadIf`, `ThreadingProofs`; the loops of its subclasses in `Frame` |
| Condition variable without pthreads: `Condition` (`comserv/threadcondition.C`) | two semaphores, a mutex, counts of the blocked, the gone and the waiting | `wait`, `wait(ms)`, `signal`, `broadcast` | `Win32Condition`, `ThreadingProofs` |
| `Mutex`, `RecursiveMutex`, `Lock`, `Condition` over pthreads (`comserv/thread*.C`) | that of pthreads | | atomicity and waits in `Fifo`, `RWMutex`, `ThreadIf` |
| Limited queues: `FiniteFifo`, `TimeLimitFifo` (`include/comserv/fifo*.h`) | as `Fifo`, with a size, a reserve and an age | `add` may refuse, `getNext`, `clear` | `TimeLimitFifo`, `ContainerProofs` |
| List with a cursor: `CList` (`include/comserv/clist.h`) | a ring of entries, head, tail, count, cursor | push, insert, sorted insert, pop, remove, assign, walk, search | `CursorList`, `LinkedEntries`, `LinkedList`, `ContainerProofs` |
| Hash table with two cursors: `CHashTable` (`include/comserv/unihashtable.h`) | chains, count, entries linked in the order put | put, remove, clear, rehash, walk by table, walk by order | `HashTable`, `ContainerProofs` |
| Expiring map: `CExpireBuffer` (`include/comserv/cexpirebuffer.h`) | linked entries by age, map by key, limit | push, update, pop by key or end, `popold`, `clear` | `ExpireBuffer` over `LinkedEntries`, `ContainerProofs` |
| Ring of bytes: `TBuffer` (`include/comserv/unibuffer.h`) | two pointers, filled and free length, cells | read, write, rearrange | `RingBuffer`, inside the next two |
| TCP socket, sending: `CSocket` (`comserv/socket.C`) | ring of bytes not taken by the system, state of the connection | `sendCode`, closing, opening | `SocketSender`, `ConnectionProofs` |
| TCP socket, receiving: `CSocket` | ring of bytes received, state of the search for a head | `recvCode` | `SocketReceiver`, `ConnectionProofs` |
| Redis cluster client: `CDBRedisCluster` (`comserv/dbredis_cluster.C`) | nodes, connections by node, last result | `connDB`, `execSQL` | `RedisCluster`, `ConnectionProofs` |
| Strings: `CStr` (`comserv/comtypedef_vchar.C`) | array, length, capacity | set, append, cut, trim, replace, divide, steal, encode, decode | `CStr`, `StringProofs` |
| `SortedFifo`, MySQL and single Redis, UDP socket, the other string classes | little | | not modelled, or through what `Frame` uses of them |
| Messages and XML, configuration, log, JSON, digests | none beyond data | conversions and system calls | not modelled |
| TinyXML, getopt_pp, linenoise, prebuilt libraries | | | third-party, not modelled |

### 1.2 Interaction

    application handlers --sendMsg--> kernel queue --kernel thread: selector--> task queue
    timer heap --process() of the same task--> task queue --> procMsg / onTimeOut / onStart ...
    manager --add--> kernel queue, task queues (requests)       kernel, tasks --post--> manager queue
    client --UDP--> manager --UDP--> client

All threads meet only in queues, with two exceptions: the registry of the
selector, which the manager fills before the threads start and the kernel
thread then owns, and the timers that an application sets in `onInit`, in the
main thread, before the thread of its instance runs.

### 1.3 What is hard

- A queue with any number of producers and consumers, timed and untimed waits,
  stolen messages, spurious wakeups, a counter kept beside the deque.
- Round robin over lists that shrink and grow, with a stored position.
- Two tables that must agree, changed by five operations.
- Timers: three readings of a running clock in one turn of the loop; a timeout
  that is already queued when its timer is deleted; a parameter that changes
  owner from heap to message to handler.
- The life of a message: sender, kernel queue, selector (one receiver, copies,
  nobody), task queue, handler, perhaps forwarded; `delete` in several places.
- The boot: the kernel thread already dispatches what `onInit` handlers have
  sent while instances still wait for their start requests and threads.
- Requests and replies: replies from many threads in one queue; handlers that
  fail or throw; a manager that waits for replies and polls a socket in turn.
- A thread object over several runs: started, joined by another thread, given
  up, destroyed, while its threads are anywhere.
- A condition variable made of semaphores: waits that time out between the
  moment a signal has counted its wakeups and the moment they are taken.
- Connections that take or bring part of what they are asked for: rings that
  wrap in the middle of a message, messages that wait behind what was left over.
- Containers with cursors that stand at what is being removed, and a table that
  grows while it is walked.
- A client that searches for a node it can reach, and keeps a connection to each.

`PROJECT.json`, "hazards", lists each with its line and the properties that
cover it.

### 1.4 What makes each component correct

- Queue: each message is delivered once, in order, to one caller; no caller
  sleeps while a message has nobody to fetch it; the counter tells the truth.
- Selector: the tables agree; a new dialog reaches an active instance when there
  is one, and the active instances in turn; copies reach everybody addressed.
- Readers-writer mutex: it excludes, its counts are exact, whoever sleeps has
  somebody to wake him, pending writers come before readers.
- Timers: not early, in order, not starved by traffic; a deleted timer is
  silent; each parameter is freed once.
- Thread object: no thread outlives it; a shutdown is heard; a join returns.
- Condition variable: the counts are those of the threads; a signal is not lost;
  the gate opens again.
- Limited queue: the reserve is kept for internal messages.
- Containers: the list is a sequence with a cursor; the links, chains, maps and
  counts agree; a walk returns what it owes; only what is too old expires.
- Sockets: what is sent and what waits are together the messages accepted; what
  is received is what was sent.
- Cluster client: no freed connection is used; every node is tried.
- String: what it holds is what was put into it, and ends within its array.
- Framework: a message has one owner until it is destroyed; pairs of instances
  see their messages in order; a transaction is in one place and is answered;
  commands do what the client says.

## 2. Plan

The order in which the modules were written, the most important behaviour first.

1. `MsgQueue`: the abstract queue. `Fifo`: the queue, implementing it.
2. `TaskSelector`.
3. `TimerQueue`.
4. `Frame`: composes the manager, the kernel and the instances, with
   `TaskSelector` as an instance for the dispatch.
5. `ReadersWriters`: the abstract lock. `RWMutex`: the lock, implementing it.
6. `ThreadIf`, `Win32Condition`: what threads are made of.
7. `TimeLimitFifo`: the limits on top of a queue.
8. `CursorList`: an abstract list. `LinkedEntries`, `LinkedList`: pointers,
   implementing it. `HashTable`, `ExpireBuffer`.
9. `RingBuffer`, and `SocketSender` and `SocketReceiver` on top of it.
10. `RedisCluster`, `CStr`.

Beside each of `Fifo`, `TaskSelector`, `TimerQueue` and `Frame` stands its module of
proofs, `StringProofs` beside `CStr`; `ThreadingProofs` is that of `RWMutex`, `ThreadIf`
and `Win32Condition`, `ContainerProofs` that of `TimeLimitFifo`, `HashTable`,
`ExpireBuffer` and `LinkedList`, `ConnectionProofs` that of the two sides of the socket,
of the ring they use and of `RedisCluster`.

What would be worth adding: the opening of connections by
`CSocket`; the composition of the socket's two sides through one connection.

## 3. Modules

### `MsgQueue`, `Fifo`

`MsgQueue` is what callers see: a sequence, and for each consumer the kind of
call it is in. `Fifo` adds the mutex, the condition and the counter. A critical
section of the code (from `Lock lock(mMutex)` to the return or to
`Condition::wait`) is one action; `pc` tells a caller that has yet to take the
mutex (`locking`, fresh or woken) from one asleep (`waiting`) and one whose wait
ended with ETIMEDOUT (`timedout`). Time is not modelled: a timed call may
expire at any moment. `Signal` wakes any one waiter, `SpuriousWakeup` one that
nobody signalled. `mSize` is an unsigned long (`SizeMod`), so `clear()`, which
sets it to `0UL - 1`, is what it is in the code; `cleared` remembers it. A failed `assert` sets
`aborted` and stops everything, as it does in a build with assertions.

### `TaskSelector`

The two hash tables are functions on their keys, `CList` is a sequence,
`instpos` a number from 0. `SendInTurn` and `SendToNobody` are the loop of
`getTask`: from the stored position, clamped to the list, at most one turn,
until an instance that is not shutting down. `MulticastMsgToTask` has the
`reset()` / `while(next())` of the code, which begins at the second element.
The counters start from `Garbage`, since the constructor does not set them and
`init()` has no caller. `served` and `last` are history: who had a new dialog in
the current round, and the outcome of the last `add`.
Instance numbers are never used twice (`used`): the manager counts `mMaxInst` up.

### `TimerQueue`

One task with its timers. `pc` follows `process()`: `top`, `scan` (pop the due
timers, one action each, against the sampled time), `next` (clock read again for
the length of the wait), `get` (and again for the deadline), `wait`, `handle`.
`SetTimer` and `DelTimer` happen in handlers. `Tick` advances the clock between
any two of these. The heap is a set of which `Top` is a least element. Every
timer has a parameter, known by its key: `alive` is the set of parameters
allocated and not freed.

### `Frame`, `MCFrame`

The framework after `Init()`. Queues are sequences (their calls are `Fifo`'s
matter), `hand[i]` is what `process()` of instance i is handling, between
`Receive` and `Finish`, `FinishEvent` or `Throw`. `Send` is any handler calling
`sendMsg`, `Forward` a handler that passes on the message it was given.
`Dispatch` is one turn of the kernel's loop and calls `TaskSelector!Add` through
an instance whose registry is fixed: every instance registered, none shut down.
`Deliver` marks copies. `StartKernel`, `StartTask`, `EnterLoop`, `GetReply`,
`NoCommand` and `RecvCommand` are the manager's `Run()`. A datagram is taken for
a `struct Command`, so `Commands` are such structs, one that fits no task among
them. Handlers of the instances in `MayFail` may report failure or throw.
History: `sent`, `seen`, `closed`, `answered`, `dropped`, `started`, `twice`. A
message is known by its sender and number, a request and its reply by their
transaction (`Name`); `Places` is the set of places where that name stands, and
`OneOwner` and `TransactionOnce` say that it always is exactly one.

### `ReadersWriters`, `RWMutex`

`ReadersWriters` has three sets of threads: who reads, who writes, who has asked
to write. `RWMutex` has the counts of the code, and in `where` the place of each
thread: asleep in one of the two conditions, woken but not yet back in the mutex,
holding the lock, or none of these. `ReadLock` is `readlock()` from its start or
from the end of a wait, `WriteLock` and `WriteAgain` are the two for
`writelock()`, which differ because the call counts as pending meanwhile.
`Unlock` decides by the counts what it gives back, as the code does, and
`UnlockWrite` and `UnlockRead` have its assertions.

### `ThreadIf`

The owner (who constructs, runs, joins, detaches and destroys) is one thread;
`running[i]` is the i-th thread it has started: about to test `isShutdown()`, in
`process()`, or over. `pthread_join` blocks, so `join()` and the destructor are
two actions, `JoinBegin` and `JoinEnd`, `Destroy` twice over. `SelfJoin` is a
`process()` that calls `join()` on its own object, which detaches. Waiters
call `waitForShutdown` with a limit or without; `WakeOne` is the signal in
`shutdown()`. `released` remembers threads given up, `joined` those waited for.

### `Win32Condition`

The branch of `Condition` for Windows without native condition variables. Every
wait for a kernel object is a step: `EnterWait` (the gate), `GetToken` (the queue
of wakeups), `TimeLimit`, `Account` (the counters, under `m_mutex`, after a wait),
`Normalize`, `Drain`, `SignalFirst` and `SignalGate` (the two parts of
signal and broadcast), `Post`. The user's mutex is `held`. `CountMod` is the width
of the counters and `NormalizeAt` the threshold at which `m_gone` is taken off
them; with every caller inside `wait` it stays below that width, which is assumed
(the code normalises at half the range of the counters). History: `due`, `timeouts`,
`miscounted`.

### `TimeLimitFifo`

Each call is one action, since waiting and waking are those of `Fifo`. `usage`
is the kind of message, `WouldAccept` the three limits, `refused` history.
`FiniteFifo` is the first limit alone.

### `CursorList`, `LinkedEntries`, `LinkedList`

`LinkedEntries` is the ring of entries with its tag, as a record of functions
`prev`, `next`, `value`, with the fields of the class; an operation maps such a
record to the next, so that operations that call others are compositions.
`LinkedList` adds what `CList` alone has. A deleted entry may be handed out again.
`CursorList` says what every operation does to a sequence and a position in it;
the mapping (`ItemsOf`, `CursorOf`) reads the entries from the head on. An element
has an identity, which a handle (`getCurrentHandle`) keeps. The loops of `remove()`,
`remove(value)` and `operator=` are recursive functions that apply `PopFront`,
`NextRound` and `PushBack` once in each round; `AssignOther` assigns from lists of up to
two values.

### `HashTable`

Chains are sequences, `s_prev` and `s_next` functions on keys. `Rehash` moves
every chain to a longer table: the entries are taken in the order of the walk and
put in front, so that the place of one in its new chain is how many of that chain
come after it in the walk (`Beyond`). `SearchNextEntry` moves the cursor of the walk.
`Gone` is where `seqCur` stands once its entry is deleted. History: `puts`, the
keys in order, and `owed`, those the walk has yet to return.

### `ExpireBuffer`

Over `LinkedEntries`, with the map from keys to entries and the time of the last
refresh. `PopOld` takes from the front while it is too old, `Push` refreshes,
inserts and, with `m_destroy_old`, makes room after it has put. `broken` says that
`clear()` has left the tail at a deleted entry; nothing happens after that.

### `RingBuffer`, `SocketSender`, `SocketReceiver`

`RingBuffer` has the functions of `TBuffer`: a transfer of n bytes at a pointer is
one call of the copy function or, if it wraps, two, and what each of them moves
(or that it fails) is given by the caller. `SocketSender` is `sendCode`:
`PreSendProcess` (select), `SendUnsentCode` (the resend), `Write`,
`BackupToSendBuff`, each system call a step and what it takes any number of
bytes. A byte is a pair of message and position; `accepted`, history, has those of
the messages whose `sendCode` returned 1 (sent) or -2 (kept). `SocketReceiver` is `recvCode`
with heads: `Scan`, `AtLength` and `SearchStep` are the state machine that
searches for a delimiter, `RecvFromSocket` reads some of what has arrived,
`Deliver` takes a message out and moves the rest to the beginning. `Reopen` is a
connection closed and another opened, with its buffer as it was. A connection may begin
with bytes of no message (`Leftovers`), with two assumptions: there is no delimiter in
them, nor one that the first byte of the first message completes; either would be taken
for the head of a message. `Ones` is more than 1 (it is 6): the state machine leaves the
middle of a delimiter only after a second 0xff.

### `RedisCluster`

The servers are nondeterminism: a connection succeeds or not, an answer is a
value, a status, a redirection, an error, or lost. `ConnDB` and `ExecSQL` begin a
command; `LoadConnect`, `LoadReply` and `LoadFails` are the reload of the slots,
`UseConnection`, `NewConnection`, `PassOver` and `Refuse` the search for a node,
`Answered`, `Lost` and `Redirected` the end. Contexts are addresses that `malloc`
may hand out again. `slots_` is written and never read, so it is left out.

### `CStr`

An array is a sequence of bytes that grows when something is written past its
end, which is then seen in its length. `Resize` and the operations are functions
from a string's fields to the next ones; the actions pair each with what it does
to a sequence of bytes, `text`. Zero bytes within a string, which the C functions
stop at and the others do not, are among the inputs.

`Encode` and `Decoded` are the two halves of `encode` and `decode`. `CStr` reads its
length with `DECODE_INT`, which steps over it. `CStrShort::decode` reads its byte from
`buf[0]` and copies from there, so that what it decodes is `Misread`: the byte of the
length, then all bytes but the last that was encoded, which stays in the buffer.
`text` follows the code in this, as in everything: `HoldsText` says that the string
is intact and holds `Misread` of the text, not that it is the text again. What
character that byte is depends on the length; `LengthByte` says, and the proofs hold
for any.

### `MCConcurrent`, `MCSequential`, `MCFrame`

Components that share no state share a run. Each behaviour has a `subject`,
chosen initially, which moves; the others rest in their initial states, where none
of their fair actions is enabled, so that fairness asks nothing of them and
each property is about the subject's behaviours alone. `MCFrame` defines the
instances, addresses and commands of the runs of `Frame`.

## 4. Runs

| Run | Shows | Bounds |
|---|---|---|
| `concurrent`, queue | `NoLostWakeup`, `WaiterIsServed`, `Fifo` implements `MsgQueue` (`ImplementsQueue`), with `clear()` at any time; `SizeIsLength` until then | 3 consumers, 2 messages |
| `concurrent`, lock | `CountsExact`, `NobodyForgotten`, `RWMutex` implements `ReadersWriters` and no assertion fails (`ImplementsLock`), `SomeWriterProceeds`, `ReadersFollow` | 4 threads |
| `concurrent`, thread | `NoThreadOutlivesObject`, `ShutdownIsHeard` | 2 runs, 2 waiters |
| `concurrent`, condition | `CountersTrue`, `WakeupsExact`, `GateReopens` | 3 threads, of which 2 have limits; 2 time-outs |
| `sequential`, selector | `RegistryConsistent`, `CountsFollowRegistry`, `NewDialogGoesToActive`, `RoundRobin` | 2 tasks, 4 instances |
| `sequential`, limited | `ReserveIsForInternal` | size 5, so one place in reserve |
| `sequential`, list | `LinkedList` implements `CursorList` (`ImplementsCursorList`) | 3 entries, 2 values |
| `sequential`, hash | `TableIsConsistent`, `WalkIsComplete` | 4 keys, of which three collide; lengths 2, 4 and 5 |
| `sequential`, expire | `BufferAgrees`, `PopOldIsExact` | 3 keys, 3 entries, limit 2 or none |
| `sequential`, sender | `StreamIsWholeUntilDamaged` | 3 messages of 2 or 3 bytes, a ring of 5 of which 2 are reserved |
| `sequential`, receiver | `ReceivedAsSent`, `NeverWraps` | 2 messages of 1 or 2 bytes, a ring of 11 |
| `sequential`, cluster | `NothingDangles`, `RefusedAfterTryingAll` | 3 nodes, 3 contexts |
| `sequential`, string | `HoldsText` | 2 strings of up to 3 bytes, arrays and blocks of 2 |
| `timer` | `TimeoutsInOrder`, `ParaOwnedOnce`, `TableFollowsHeap`, `DeletedStaysSilent`, `DueTimerFires` | 3 keys, delays 1 and 3, longest wait 2, horizon 3 |
| `frame` | `OneOwner`, `PairOrder`: five kinds of address (in turn, by instance, multicast, single and multicast to nobody) | 2 instances of a task, 2 messages and 1 |
| `frame_command` | `TransactionOnce`, `RequestsAnswered`, `MessagesSettle`; one task fails or throws, three kinds of command | 2 tasks, 5 transactions, 1 message |
| `fifo_assert` | violation: an assertion fails after `clear()` | 1 consumer, 2 messages |
| `selector_multicast` | violation: the first instance gets no multicast | 2 tasks, 3 instances |
| `timer_wait` | violation: a wait without limit although a timer is pending | as `timer` |
| `frame_init` | violation: a message is handled before `preTaskStart` | 2 instances, 1 message each |
| `frame_free` | violation: a message is deleted twice | 2 instances, 1 message each |
| `condition_signal` | violation: a signal wakes nobody | as `concurrent`, no normalisation |
| `socket_package` | violation: a part of a message is sent twice | as `sequential` |

Why the bounds are enough. In the queue three consumers are a thief, a sleeper
and one that times out; with two messages two signals can be outstanding. In the
lock four threads are two readers and two writers, or three of one kind and one
of the other. A thread object that is run twice has a thread given up, or joined,
beside a new one. In the condition three threads are two that time out with
wakeups outstanding and one that sleeps on, which is what a miscount needs.

In the selector four instances of two tasks let a list shrink below a stored
position and grow again; a round of three needs three. A size of 5 is the
smallest whose reserve is one place and whose rest is more than one. Three
entries of a list are its first, its last and one between. Three keys of one
chain and a table that grows put the cursor before, at and behind what is
removed. A ring of five bytes with messages of two and three wraps at every
position, and three messages are one half sent, one kept behind it and one that
is refused. The receiver's ring has room for two messages at most, so its content
has to be moved; a payload that looks like half a head makes the search start
over. Three nodes are a search that begins in the middle, wraps and fails. An
array of two bytes makes strings of three grow, and grow by a whole block.

In the timers three keys in flight and a horizon of a few ticks let a timer fall
due between any two readings of the clock, and `KeyMod` is small enough that keys
are reused. In `Frame` two instances give every pattern of sender and receiver, a
task of two is the least for turns and copies, two messages of one sender are the
least that can be out of order, and five transactions are the boot and a command
to both instances, which overlap because nothing orders them.

Named bounds: `Horizon`, `MaxRx`, `StepMax` (`TimerQueue`); `MaxSends`, `MaxTrans`
(`Frame`); `SizeMod` (`Fifo`); `MaxRuns` (`ThreadIf`); `CountMod`, `NormalizeAt`,
`MaxTimeouts`, `MaxTokens` (`Win32Condition`); `MaxClock` (`TimeLimitFifo`);
`Entries` (`LinkedEntries`), `MaxTime` (`ExpireBuffer`), `MaxLength`
(`HashTable`), `MaxMessages` (`SocketSender`), `MaxSent` (`SocketReceiver`),
`MaxElements` (`RedisCluster`), `MaxText` (`CStr`). `Expire` of `Frame`
keeps one outstanding timeout for each instance, and none for one that can send
no more.

The types of `Fifo`, `TaskSelector`, `TimerQueue`, `RWMutex`, `ThreadIf`, `Frame` and
`TimeLimitFifo` are proved (section 7) and no run repeats them. Symmetry, of
the selector's instances, is used in `sequential` only, which has no liveness
property. Deadlock is checked except where the system may stop: everybody may come
to wait in a condition, a failed assertion ends the process, no more than a
bounded number of messages is sent, and `clear()` ends the use of an expiring
buffer.

## 5. Fairness

- `Fifo`: weak fairness of each thread's critical section. No section blocks
  while it holds the mutex, so a thread that asks for the mutex gets it.
- `RWMutex`: weak fairness of a woken thread's return to the mutex and of
  `unlock`: who has the lock gives it back. Nobody is assumed to ask for it.
  A single writer may be overtaken by other writers for ever, and readers by
  writers ("Could potentially starve readers", `comserv/threadmutexRW.C`), so
  the properties say that some writer proceeds, and that readers do when no
  more writers come.
- `TimerQueue`: weak fairness of the task's thread and of the clock. Handlers
  return.
- `Frame`: weak fairness of the kernel thread, of each instance's thread and of
  the manager. The manager's wait for a reply is limited to a second and its
  socket is read with MSG_DONTWAIT, so that its loop always goes on. Sending,
  timers and clients are not assumed to happen.

- `ThreadIf`: `process()` returns and the thread tests again; `pthread_join`
  returns when the thread is over; the limit of a wait expires; who was woken
  returns. The owner is not assumed to call anything, except that a destructor
  it has begun goes on.
- `Win32Condition`: whoever can go on inside the condition does. Nobody is assumed
  to wait, to signal, or to take or give back the user's mutex.

Liveness is checked without symmetry.

## 6. Where the code differs from what it says

Seven are runs that TLC ends with a counterexample; `PROJECT.json`, "findings",
quotes the line.

1. `Fifo::clear()` sets the counter to its maximum, not to 0 (`fifo_assert`).
2. A multicast misses the first instance of its task (`selector_multicast`).
3. A timer that falls due between two readings of the clock makes the wait
   unlimited (`timer_wait`).
4. A message may be handled before `preTaskStart` (`frame_init`).
5. A multicast to an unregistered task is deleted twice (`frame_free`).
6. In the condition for Windows two waits that time out while wakeups are
   outstanding leave a sleeper nobody counts (`condition_signal`).
7. A resend that wraps and is refused in its second part sends the first again
   (`socket_package`).

Others are plain from the source and have no run:

- `dialogType` has no effect on dispatch (`kernel/taskselector.C:195` looks at
  `msgType` only), though `include/msg/msgdef.h:25` describes it as a way to
  distribute a message.
- The selector's counters are never initialised: `init()` has no caller. The
  models' `Garbage` stands for what they start from.
- `delTimer` does not recall a timeout already in the task's queue.
- The kernel's `onInit` returns before `shutdown=FALSE` (`kernel/framectrl.C:126`).
- The manager logs "init task ok" for a start that failed: the status is then 2,
  and only 0 is logged as an error (`framemng.C:226`).
- The client sends its commands as text (`xclient/main.C:264`) and the manager
  reads a struct (`framemng.C:277`); `stop` is type 2, which is a request for
  the status (`framemng.C:299`).

- `shutdown()` of `ThreadIf` signals instead of broadcasting: of two threads in
  `waitForShutdown` without limit one sleeps on. `mShutdown` is never reset, so
  a thread run after a shutdown ends at once.
- `TimeLimitFifo` with a maximum of 1 has a reserve of all and, for external
  messages, no limit of its own, since four fifths of 1 are 0; `FiniteFifo` with 0 refuses
  everything (`include/comserv/fifofinite.h:57`).
- A new key put into a hash table ends a walk over it as if it were complete;
  `seqCur` is left at a deleted entry, by `remove()` and by `clear()`.
- `clear()` of the expiring buffer leaves the tail at a deleted entry; `update`
  with a time of its own breaks the order that `popold` relies on.
- `sendCode`: when more waits than is resent at once, the new message is kept
  twice (`comserv/socket.C:1373`); the room for a normal message is compared as an
  unsigned number, so that one may be cut off (`:1626`); a connection that is
  closed and opened keeps its buffers, so that the new one begins with the rest
  of a message; `pack()` drops the flag of an emergency message.
- `recvCode`: a head whose length is too long leaves the search in the state
  "found", and the next message is lost; a message of no bytes leaves it there as
  well, and the next lengths are looked for one byte further on each time
  (`comserv/socket.C:1544`, `AtLength`).
- `CDBRedisCluster`: `try_random_node` is never false, so that `slots_` is never
  used; a redirected or lost command is not tried again, although the comments
  announce it; the result of the previous command stays after a refusal; a
  statement that is too long is sent all the same (`comserv/dbredis_cluster.C:399`).
- Strings: `CVarChar::set` with length 0 keeps the old length and `CVarCharN::set`
  does nothing; assigning a `CVarChar` to itself deletes its content; appending
  a `CStr`'s own `c_str()` reads freed memory once it grows; `CVarCharN::decode` of
  too long a value leaves no zero byte.
- `CStrShort::decode` does not undo `CStrShort::encode` (`comserv/comtypedef_vchar.C:2675`
  to `:2682`): it never steps past the byte of the length. That byte becomes the first
  character, the last byte is lost, and the pointer ends one byte short, so that what
  follows in the buffer is read from the wrong place. `DecodeOfShortShifts` proves the
  first two for every string; no comment or test of the repository says anything of it, so
  there is no run that refutes a claim.

## 7. Proofs

Each theorem holds for every value of the constants that satisfies the named
assumption of its module, in particular for any number of threads, messages,
tasks and instances.

`FifoProofs`, from `FifoAssumption`:

- `TypeCorrect`, `NoDuplicate`, `Refinement` hold with `clear()` allowed;
  `NoWakeupLost` too; `CounterExact` holds until `clear()` is called.
- The wakeup argument: in every step of the queue, the number of queued messages
  exceeds that of threads on their way only if nobody sleeps. `Add` appends one
  message and moves one sleeper, if there is one, to `locking`; `Take` removes
  one of each; a thread leaves `locking` without a message only when the queue is
  empty.
- The counter needs a strengthening: messages in the queue are distinct
  (`Distinct`), so the deque is no longer than the set of messages and the
  unsigned counter cannot wrap below `SizeMod`.
- The refinement maps the deque to the abstract sequence and `mode` to the
  abstract call; it needs the invariant that a thread has a mode exactly
  while it is in a call and only a timed call times out (`ModeMatchesPC`).

`TaskSelectorProofs`, from `SelectorAssumption`:

- `RegistryAgrees`: `TypeOK` and `RegistryConsistent` together are inductive.
  Lemmas state what appending to a list and removing a value from it do to its
  elements and to its injectivity.
- `TypeCorrect`: `instpos` stays a natural number, which needs the range of
  `Position` (`PositionRange`).
- `DialogReachesActive`: the candidates of one turn are all positions of the
  list, whatever position it starts from (`TurnIsComplete`, modular arithmetic),
  and the list holds exactly the instances of the task (`RegistryAgrees`).
- `CountersFollow`: a registration meets a new id, and a list without repetitions
  has as many elements as places (`CountedOnce`), which is what `unregisterTask`
  relies on when it discounts the length of the list.
- `TurnsAreFair`: `RoundInv` ties the history `served` to the stored position: who
  has been served in a round are the active instances met from some place of the
  turn to its end, which is the stored position, and these are not all. So the
  next active one in the turn is not among them (`RoundServes`), unless
  the turn has come all the way round, when all would have been served. A move
  rotates the turn (`TurnMoved`).

`ThreadingProofs`, the lock, from `ThreadsAssumption`:

- `LockInv`, the invariant that is inductive, joins `TypeOK`, `CountsExact`,
  `Exclusion` and the absence of failed assertions. The counts are needed for
  exclusion, since the calls test only them, and exclusion for the counts, since
  `unlock` guesses from the flag what its caller holds. `LockTypeCorrect`,
  `LockCountsTrue` and `MutualExclusion` follow.
- `NobodyLost`: inductive relative to `LockInv`; every branch of `unlock` wakes those
  that the invariant relies on, and the last reader is recognised because the
  count is exact.
- `Refinement`: the sets of the abstract lock are sets of `where`.

`ThreadingProofs`, the thread object, from `ThreadIfAssumption`:

- `Outlived`: `Started` adds to the types that a thread to be joined was started and
  not given up, that the owner joins only when there is one, and that whoever is alive
  is the one to be joined or was given up. The destructor ends with no thread to join,
  so that only those given up can be alive.

`ThreadingProofs`, the condition, from `ConditionAssumption`, for any number of callers,
with and without limits:

- `CountsTrue` and `Wakeups` follow from one invariant, `Control` and `Counts`.
  `Control` says who holds which mutex, that nobody is at the gate while wakeups are
  outstanding, and that one thread at most drains: none of it depends on the
  counters, so that it survives the miscount.
- `Counts`: until a thread is taken off twice the threads inside `wait` are those the
  counters tell (`Counted`), `m_gone` is normalised in time and is not 0 while wakeups
  are outstanding only when nobody is blocked (`GoneOK`), and what is in the
  semaphore, in the hands of the woken and about to be posted covers what is
  outstanding and what is due (`Sufficient`). Before the first timeout it is
  exactly that (`Exact`). `GoneOK` is what makes the draining stop at the right
  token: without it a late thread's token could be kept.
- Each step moves one thread, so that the three counts of threads change by one
  (`CountsMove`); that the counters do not wrap is the room that the callers outside
  `wait` leave (`RoomForOne`).

`TimerQueueProofs`, from `TimerAssumption`:

- `TypeCorrect` needs that a key is never 0 although the counter wraps
  (`NewKeyIsKey`).
- `Order`: inductive together with `HeapIsLater` (the clock has passed the time
  that `process()` compares with, and what is still in the heap is no earlier than
  what has left it). A handler sets a timer later than the clock, and so later
  than every timeout already queued; a popped timer is on top of the heap.
- `ParaOwned`, `TableExact`: `OwnerInv` joins them with `KeysUnique` (one timer per
  key in the heap) and `HandEmpty` (no message is held between two messages).
  They rest on the assumption `KeyFree`.
- `DeletedSilent`: only `Pop` adds a key to the queue, and by `TableFollowsHeap`
  one that was not deleted.
- `KeysAppend` and `KeysTail` say what adding and taking a message do to the keys
  of the timeouts in a queue.

`ContainerProofs`, the queue with limits, from `LimitAssumption`:

- `TypeCorrect`: the states are well typed and the counter is the length of the deque.
- `ReserveKept`: `Outside`, the positions of the external messages, is counted
  through adding at one end (one more only when `WouldAccept` allowed it) and
  taking at the other (the positions of the tail map one to one into those of
  the whole). An internal message is refused when the queue is full, and then
  what the external ones do not fill is internal.

`ContainerProofs`, the hash table, from `HashAssumption`, for any finite set of keys, any
lengths and any load factor:

- `HashHolds`, `HashWalk`: `Sound` says that the chains have the keys put, each once and
  in the slot of its code (`Chains`), that the entries are linked in the order they were
  put (`Linked`), and that the walk owes the entry at the cursor and what is `Beyond` it
  (`Walking`). `Beyond` is a strict order of all entries (`BeyondOrders`), of which
  `SearchNextEntry` takes the next: removing any entry takes it out of what is owed and
  of nothing else.
- `RehashChains`: an entry's place in a new chain is its rank in that order among those
  of the chain. The ranks in a finite strict order are 0, 1, ... without a gap (`Ranks`,
  by counting), so the new chains have every entry once.

`ContainerProofs`, the expiring buffer, from `EntriesAssumption` and `ExpireAssumption`,
for any keys, any limit and any living time:

- `ExpireHolds`: `Ring` says that a list is the entries of a sequence, linked in both
  directions with the tag before the first and after the last, with head, tail and count.
  `UnlinkKeyRing` (any entry is taken out), `PushBackRing` and `MoveToTailRing` say what
  the operations do to the sequence; reading the links from either end gives it back
  (`OnwardIs`, `BackIs`). `Holds` adds that the map finds each entry by its key, `InTime`
  that nobody is in front of one refreshed earlier, which a push and an update at the
  present keep because they go to the back.
- `ExpireExact`: pop_old stops at the first entry that is young enough (`PopOldTakes`),
  and by `InTime` all behind it are. Its loop is followed entry by entry (`Popped`).
- Inductions over numbers go by the least counterexample: every set of numbers from 0
  to n that is not empty has a first (`FirstOfPlaces`).

`ContainerProofs`, the list, from `EntriesAssumption` and `ListAssumption`, for any values
and any memory for its entries:

- `ListRefines`: `LinkedList` implements `CursorList`. The invariant says that some
  sequence of entries is in the ring (`Ring`, as above), that the cursor is at one of
  them or at the tag, and that the handle, if there is one, is of one of them
  (`Listed`). Under it the mapping reads that sequence (`OnwardIs`) and the place of the
  cursor in it (`CursorIs`).
- Each function on entries is shown to put an entry into the sequence at a place or to
  take one out (`PushFrontPuts`, `PushBackPuts`, `LinkPuts`, `PopEnds`,
  `PopCurrentTakes`), which is where first, last and only entries are told apart; then
  `PutRefines` and `TakeRefines` make of these what `CursorList` says, whichever
  operation it was.
- A loop is followed from round to round: `remove()` (`RemoveAllIs`), `operator=`
  (`AssignIs`), and `remove(value)` (`RemoveValueIs`), where what is left after a round
  has the elements before the cursor as they were, without the value, and those behind
  it untouched.

`ConnectionProofs`, of the cluster's client, from `ClusterAssumption`:

- `Dangling`: `Owned` says that the contexts allocated are exactly those in the table,
  each under one node, and the one a reload of the slots is using; `InHand` that a
  command's context is then nobody's, the table's or its own. A lost answer frees the
  context and takes it out of the table in one step, which keeps both.
- `Refused`: during the search the nodes tried and those ahead (`Ahead`, as many
  places from `next` on as there are turns left, around the end) are all nodes.
  As many turns as there are places visit each of them (`TurnsVisitAll`).

`ConnectionProofs`, of the socket, from `SenderAssumption` and `ReceiverAssumption`, for
any sizes of the buffers, any messages and any cut of the stream:

- `ReceivesInOnePiece`: what is in the receive buffer lies in one piece, byte by byte
  (`InLine`), and begins at the front whenever no message has just been taken out.
  `read()` of all there is leaves a piece (`ReadLine`), `rearrange()` brings it to the
  front, and `write()` behind a piece that begins at the front does not wrap
  (`WriteLine`).
- `MessagesAsSent`: `Stream` says that the messages received are the first of those sent,
  and that the bytes in the buffer followed by those that have arrived are the others one
  behind the other (`Laid`), after some bytes without a delimiter (`Clean`); and that the
  buffer ends before the next message does, unless it may hold one. A read moves the
  border between the two, and leaves the stream as it is.
- The search is followed byte by byte (`SearchStepIs`): of a delimiter it has seen as many
  bytes as the last ones agree with (`Matches`), which behind the place where the next
  message begins are exactly those of its delimiter (`SeenIs`). So the one it finds is
  that of the next message (`FoundIs`), and what it drops is in front of it (`Outcome`).
- `StreamWhole`: between calls the bytes the connection has and those in the ring are
  together the ones accepted. Inside a call it holds with the message in hand added
  (`TheStream`); `TheAccepted` says that a byte is accepted once, which is why the part
  of a message that a new connection begins with can be recognised.
- The ring is reasoned about through its content: `ContentIs` says which cell the i-th
  byte is in (modulo the size), `WriteEffect` that writing appends to the content, in one
  part or two, and `ReadEffect` that reading takes from its front as many bytes as were
  passed on, unless the second part failed after the first had moved (`Passed` excludes
  it: that is the damage of finding 7).

`StringProofs`, from `StringAssumption` (an array has a cell; what is passed, and what a
length is written as, consists of bytes):

- `StringsHoldText`: the inductive invariant, `StringInv`, says that each string holds its
  text (`Holds`): its bytes, a zero behind them, their number, in an array of as many
  cells as its capacity says. It says more than `HoldsText`, that the text is one of
  bytes that were written and that it is no longer than the capacity.
- Everything comes down to what copying does to an array (`CopiedIs`), to writing behind a
  text that is held (`WrittenIs`), and to the growth of the array (`ResizeIs`), which has
  room for the zero because a whole number of blocks is more than the length
  (`RealCapacityIs`). A string appended to itself loses its zero first; `WithZero` has it
  copied, `EndedIs` has it written again.
- `DecodeOfShortShifts`, from what `encode` writes (`EncodeIs`) and what `decode` takes of it
  (`DecodedIs`): `CStr` gives back its text, `CStrShort` gives back `MisreadIs`.
- What the C functions see is the text if it has no zero byte of its own (`CStringIs`).
  `trimAll` and `replace` are loops: `Turns` says what they have after each turn, and
  `UpTo`, induction as a statement about sets, takes what holds of one turn to the last.

`FrameProofs`, from `FrameAssumption`:

- `SentInOrder`, for any number of instances and any behaviour of the selector: in the
  queue of each instance and in the kernel's the messages of a sender are in order
  and between the last received and the last sent (`InOrder`), and what the
  instance's queue has of a sender is earlier than what the kernel's has
  (`Before`). The second part is what dispatching needs: the first message of the
  kernel's queue, appended to another, is later than what is there. `Sending`,
  `Asking`, `Dispatching` and `Receiving` are the four things a step can do to
  a pair of queues; each action is one of them.
- `OwnedByOne` and `AskedOnce`: `PlaceInv` says that every name given out so far
  is in exactly one container (`Partition`: a queue, a hand, or the past) and once
  in it (`Once`), and that names not given out are nowhere, which makes a new one
  new. A step keeps each name where it was or takes it to one container (`Kept`);
  `Moved` and `Created` are the steps that move one name and those that bring new
  ones. For a command the instances addressed get different transactions, and
  every transaction counted is one of theirs (`OwnTransactions`: the ranks in a
  finite set are an injection into as many numbers, so a surjection).
- `TypeCorrect`: the types of the queues are part of both invariants, the rest
  (`ControlOK`) follows from them.

With these, every invariant, action property and refinement that a passing run checks is
also a theorem. Model-checked only: the liveness properties (`DueTimerFires`,
`RequestsAnswered`, `MessagesSettle`, `WaiterIsServed`, `SomeWriterProceeds`,
`ReadersFollow`, `ShutdownIsHeard`, `GateReopens`). Liveness under fairness and
`ENABLED` are beyond TLAPS. So are the library's rules of induction, which take
an operator; where a loop has to be followed, its turns are a set of numbers without
a least one left out (`UpTo`). There are no recursive operators in any module, only
recursive functions and folds.

## 8. Not modelled

- Contents of messages, status reports, configuration and log texts.
- `stop(key)` of the timer queue, `onHeartBeat`, `onShutdown` and the kernel's
  own requests other than INIT: they have no caller.
- Failure of `new`, of thread creation and of the socket calls other than
  sending, receiving and connecting.
- A clock that is set back: `getTimeMs` is the wall clock.
- Destruction of the manager: `Run()` does not return.
- Wrap-around of timer keys within the life of a timer (`KeyFree`).
- Nested locking of `RWMutex` by one thread, which no comment allows.
- `SortedFifo`: a map under a mutex that hands out pointers into itself.
- MySQL and single Redis: a call of the client library each. The table of slots
  of the cluster: written and never read.
- The opening of TCP and UDP connections, socket options and SSL: system calls whose
  results are stored. The two-byte length of messages is one byte in `SocketReceiver`.
- Changing the limit of an expiring buffer at run time.
- `CVarChar` and its relatives, JSON, XML, digests, Base64, DES, conversions:
  sequential functions of data, without state that lasts from call to call.
- TinyXML, getopt_pp, linenoise, and the headers of OpenSSL, MySQL and hiredis under
  `_lib/`, which are most of the lines of the repository: third-party code.

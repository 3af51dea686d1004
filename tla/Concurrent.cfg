CONSTANTS
    \* Fifo: a counter that wraps above the number of messages.
    Consumers = {c1, c2, c3}
    Messages = {m1, m2}
    NoMsg = NoMsg
    SizeMod = 8
    \* RWMutex: two of a kind and one more of either.
    Threads = {a, b, c, d}
    \* ThreadIf: run again after a join, or beside a thread given up.
    MaxRuns = 2
    Waiters = {w1, w2}
    \* Condition: two waiters with a limit, one without.
    Callers = {x, y, z}
    TimedCallers = {x, y}
    NoCaller = NoCaller
    NormalizeAt = 2
    CountMod = 8
    MaxTimeouts = 2
    MaxTokens = 2
SPECIFICATION ConcurrentSpec
INVARIANTS
    SizeIsLength NoLostWakeup
    CountsExact NobodyForgotten
    NoThreadOutlivesObject
    CountersTrue WakeupsExact
PROPERTIES
    ImplementsQueue WaiterIsServed
    ImplementsLock SomeWriterProceeds ReadersFollow
    ShutdownIsHeard
    GateReopens
\* Everybody may come to wait in a condition, and a miscount can leave its gate
\* closed; a failed assertion ends the process.
CHECK_DEADLOCK FALSE

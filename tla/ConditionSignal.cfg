\* As in Concurrent.cfg; three threads, of which two may time out.
CONSTANTS
    Callers = {a, b, c}
    TimedCallers = {a, b}
    NoCaller = NoCaller
    NormalizeAt = 30
    CountMod = 64
    MaxTimeouts = 2
    MaxTokens = 2
SPECIFICATION CondSpec
INVARIANT SignalNotLost
\* Everybody may come to wait.
CHECK_DEADLOCK FALSE

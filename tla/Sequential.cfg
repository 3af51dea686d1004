CONSTANTS
    \* TTaskSelector: four instances between two tasks, counters that start from 5.
    Tasks = {t1, t2}
    Insts = {i1, i2, i3, i4}
    NoInst = NoInst
    Garbage = {5}
    \* TimeLimitFifo: four places and one in reserve.
    MaxSize = 5
    MaxDurationSecs = 1
    MaxClock = 2
    \* CList and CExpireBuffer: the first, the last and one between.
    Entries = {e1, e2, e3}
    Tag = Tag
    Null = Null
    ListValues = {1, 2}
    BufferKeys = {k1, k2, k3}
    MaxCount = 2
    LivingTime = 1
    GivenTimes = {1}
    MaxTime = 3
    \* CHashTable: grows to twice its length, and then to the most.
    HashKeys = {0, 1, 2, 4}
    StartLength = 2
    MaxLength = 5
    LoadPercent = 75
    NoEntry = NoEntry
    Gone = Gone
    \* CSocket, sending: a ring of five bytes, two of them reserved.
    NoByte = NoByte
    Size = 5
    MaxEmergencyLength = 2
    SendBufSize = 3
    FindHead = FALSE
    Lengths = {2, 3}
    MaxMessages = 3
    \* CSocket, receiving: heads of five bytes, messages of one or two.
    RecvSize = 11
    Ones = 2
    CodeMax = 3
    Payloads <- TwoPayloads
    Leftovers <- TwoLeftovers
    MaxSent = 2
    \* CDBRedisCluster: a search that wraps around.
    Nodes = {n1, n2, n3}
    Contexts = {x1, x2, x3}
    NoContext = NoContext
    MaxElements = 1
    \* CStr: an array of its own, of the size asked for, and of two blocks.
    Objects = {s1, s2}
    Letter = Letter
    Space = Space
    Nul = Nul
    Unwritten = Unwritten
    Literals <- SomeLiterals
    Blocks <- SomeBlocks
    MaxCStrBufferLen = 2
    ShortMax = 2
    LengthByte <- SomeLengthBytes
    MaxText = 3
SPECIFICATION SequentialSpec
SYMMETRY Symmetry
INVARIANTS
    RegistryConsistent
    ReserveIsForInternal
    TableIsConsistent WalkIsComplete
    BufferAgrees
    StreamIsWholeUntilDamaged
    ReceivedAsSent NeverWraps
    NothingDangles RefusedAfterTryingAll
    HoldsText
PROPERTIES
    CountsFollowRegistry NewDialogGoesToActive RoundRobin
    ImplementsCursorList
    PopOldIsExact
\* No more than so many are sent; clear() ends the use of an expiring buffer.
CHECK_DEADLOCK FALSE

CONSTANTS
    Consumers = {c1}
    Messages = {m1, m2}
    NoMsg = NoMsg
    SizeMod = 16
SPECIFICATION Spec
INVARIANT NoAssertFailure
CHECK_DEADLOCK FALSE

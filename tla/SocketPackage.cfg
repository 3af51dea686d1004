\* As in Sequential.cfg.
CONSTANTS
    NoByte = NoByte
    Size = 5
    MaxEmergencyLength = 2
    SendBufSize = 3
    FindHead = FALSE
    Lengths = {2, 3}
    MaxMessages = 3
SPECIFICATION SenderSpec
INVARIANT EachPackageWhole
\* No more than MaxMessages are sent.
CHECK_DEADLOCK FALSE

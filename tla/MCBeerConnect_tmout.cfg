\* A signal during the connect wait: is ETMOUT reported before the timeout?
CONSTANTS
    Hints = {"name"}
    Tmouts <- MCWholeTmout
    Micro = 2
    SendBufs = {0}
    BufMax = 12
    BufMin0 = 4
    Dflt = 3
    Limits = {12}
    FdZeroFree = FALSE
    ConnectNow = FALSE
    SysMayFail = FALSE
    MaxIntr = 1
    MaxCalls = 1
SPECIFICATION Spec
INVARIANT TimeoutHonoured
CHECK_DEADLOCK FALSE

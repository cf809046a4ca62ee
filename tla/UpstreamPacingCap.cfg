SPECIFICATION Spec
CONSTANTS
    Workers = {w1, w2}
    NumHosts = 1
    Limit = 1
    LeaseTtl = 2
    AcquireTimeout = 1
    CoolRateLimited = 1
    CoolUnreachable = 1
    Tokens = {1, 2}
    MaxTime = 1
    MaxFaults = 0
CHECK_DEADLOCK FALSE
INVARIANT SlotCap

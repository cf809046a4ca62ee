SPECIFICATION FairSpec
CONSTANTS
    Workers = {w1, w2}
    NumHosts = 1
    Limit = 1
    LeaseTtl = 2
    AcquireTimeout = 1
    CoolRateLimited = 1
    CoolUnreachable = 1
    Tokens = {1, 2, 3}
    MaxTime = 2
    MaxFaults = 1
CHECK_DEADLOCK FALSE
INVARIANTS TypeOK HolderLeaseKept NoOrphanLease CapWithoutOvertaking
PROPERTY WaitEnds

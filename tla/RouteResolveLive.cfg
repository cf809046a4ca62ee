\* CHECK_DEADLOCK: the bounded user operations end and the system comes to rest.
SPECIFICATION FairSpec
CONSTANTS
    Tokens = {t1, t2}
    Requests = {r1}
    Workers = {w1}
    Kinds = {"trigger", "degraded", "stale", "edit", "move", "delete"}
    MaxAttempts = 2
    MaxDegradeRetries = 1
    MaxRqRetries = 0
    WithScheduler = FALSE
    MaxOps = 2
    MaxQueue = 2
    NoToken = NoToken
CHECK_DEADLOCK FALSE
PROPERTIES PendingSettles AutoRetryEnds

\* CHECK_DEADLOCK: the bounded user operations end and the system comes to rest.
SPECIFICATION Spec
CONSTANTS
    Tokens = {t1, t2}
    Requests = {r1, r2}
    Workers = {w1}
    Kinds = {"trigger", "force", "degraded", "stale", "edit", "rename", "restart", "die"}
    MaxAttempts = 1
    MaxDegradeRetries = 1
    MaxRqRetries = 1
    WithScheduler = TRUE
    MaxOps = 2
    MaxQueue = 2
    NoToken = NoToken
CHECK_DEADLOCK FALSE
SYMMETRY ResolveSymmetry
INVARIANTS TypeOK RetryBudget StatusTokenAgree EditedNotProvisional

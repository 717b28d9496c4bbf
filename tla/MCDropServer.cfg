CONSTANTS
    a1 = a1
    t1 = t1
    t2 = t2
    t3 = t3
    IPs = {a1}
    Tids = {t1, t2, t3}
    AttemptIds = {1}
    Target <- MCTarget
    Priority <- MCPriority
    Deadline <- MCDeadline
    MaxQueue = 2
    MaxTime = 1
    MaxRestarts = 1
SPECIFICATION Spec
INVARIANTS QueueWellFormed CancelSurvivesRestart DispatchedOnce
PROPERTIES CancelKeptUntilConfirmed

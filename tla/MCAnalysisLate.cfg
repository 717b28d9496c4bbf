CONSTANTS
    w1 = w1
    w2 = w2
    Workers = {w1, w2}
    AttemptIds = {1, 2}
    MaxAttempts = 2
    MaxJobs = 1
    MaxExpiries = 1
    MaxCrashes = 0
SPECIFICATION Spec
CHECK_DEADLOCK FALSE
PROPERTY LateWorkerIsSilent

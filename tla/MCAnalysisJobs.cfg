CONSTANTS
    w1 = w1
    w2 = w2
    Workers = {w1, w2}
    AttemptIds = {1, 2}
    MaxAttempts = 2
    MaxJobs = 2
    MaxExpiries = 2
    MaxCrashes = 1
SPECIFICATION FairSpec
CHECK_DEADLOCK FALSE
INVARIANTS OneActiveResult GenerationsGrow
PROPERTIES FinishedJobsStay LateAttemptKeepsActive JobsFinish

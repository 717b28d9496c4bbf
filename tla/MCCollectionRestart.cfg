SPECIFICATION FairSpec
CONSTANTS
    t1 = t1
    t2 = t2
    Me = Me
    Tids = {t1}
    AttemptIds = {1}
    MaxQueue = 2
    MaxRestarts = 1
    MaxCompleted = 2
    MaxNotify = 2
    MaxFailures = 2
PROPERTIES
    CancelConfirmed

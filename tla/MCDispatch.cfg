CONSTANTS
    n1 = n1
    c1 = c1
    Outboxes = {"outbox"}
    Reconciler = "reconciler"
    Notifiers = {}
    Cancelers = {}
    MaxTries = 2
    Generations = TRUE
    LayoutV2 = FALSE
    MaxLost = 0
    MaxCrashes = 1
    MaxEnds = 1
SPECIFICATION FairSpec
CHECK_DEADLOCK FALSE
INVARIANTS IntentKept DoneMeansUploaded
PROPERTIES EventuallyTerminal DoneIsQueued

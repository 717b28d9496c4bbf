CONSTANTS
    n1 = n1
    c1 = c1
    Outboxes = {"outbox"}
    Reconciler = "reconciler"
    Notifiers = {}
    Cancelers = {}
    MaxTries = 1
    Generations = TRUE
    LayoutV2 = TRUE
    MaxLost = 0
    MaxCrashes = 0
    MaxEnds = 1
SPECIFICATION Spec
CHECK_DEADLOCK FALSE
PROPERTIES PollerFindsRaw

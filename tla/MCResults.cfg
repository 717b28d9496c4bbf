CONSTANTS
    n1 = n1
    c1 = c1
    Outboxes = {"outbox"}
    Reconciler = "reconciler"
    Notifiers = {n1}
    Cancelers = {c1}
    MaxTries = 1
    Generations = TRUE
    LayoutV2 = FALSE
    MaxLost = 1
    MaxCrashes = 0
    MaxEnds = 2
SPECIFICATION Spec
CHECK_DEADLOCK FALSE
INVARIANTS TrailEndsInStatus DoneMeansUploaded
 

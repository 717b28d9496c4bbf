SPECIFICATION ControlSpec
CONSTANTS
    Sessions = {"s1", "s2"}
    Requests <- RequestsDef
    Limit <- LimitDef
    MaxFaults <- OneIfSingle
    MaxSpool <- OneIfSingle
    Plans = {"p", "c"}
    CronPlans = {"c"}
    Wanted = {{"p"}, {"c"}}
    Interval = 1
    Threads = {"a1", "b1", "b2"}
    Process <- ProcessDef
    Pollers = {"a1", "b1"}
    MaxTime = 1
    MaxCrashes = 1
    Children = {"c1", "c2"}
    Policies <- PoliciesDef
    Refreshers = {1, 2}
    Rules <- RulesDef
    RuleSets = {{"io"}, {"db"}}
    Values = {0, 2, 5}
    Floor = 1
    K = 2
    Window = 2
    Cooldown = 2
    LastTime = 3
    MaxStops = 1
    Addresses = {"i", "j"}
    Agents = {"a"}
    Local = "i"
    Configured = {"j"}
    Workers = {1, 2}
    MaxRows = 2
    MaxMoves = 1
INVARIANTS StopIsNotUndone ActiveSetIsLegal OneTaskPerSlot DoneIsEarned 
PROPERTIES StopCompletes 
CHECK_DEADLOCK FALSE

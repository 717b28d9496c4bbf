SPECIFICATION StorageSpec
CONSTANTS
    Tasks = {"t1", "t2"}
    Arts <- ArtsDef
    TaskOf <- TaskOfDef
    KeyOf <- KeyOfDef
    Kind <- KindDef
    Ledger = {"kern", "kern.gz", "elf"}
    Elf = {"elf"}
    Cas = {"cas1", "cas2", "cas3"}
    CasOf <- CasOfDef
    Migratable = {"t1/r", "t2/r", "kern", "elf"}
    Groups <- GroupsDef
    Legacy = {"r1", "k1", "kern", "elf"}
    Workers = {"lifecycle", "retention", "blob", "writer"}
    BlobWorkers = {"blob"}
    MaxBusy = 2
    MaxFails <- MaxFailsDef
    MaxWrites <- MaxWritesDef
    Touched = {"t1"}
    Policies <- PoliciesDef
    Guard = 2
    Superseded = 3
    Kinds = {"manifest", "result", "log", "raw", "portable", "intermediate"}
    MaxTime = 8
    Requests = {"r1", "r2"}
    Hours = {1}
    MaxBytes = 1
    Disk = {1, 3, 6, 9}
    MinFree = 2
    Critical = 3
    Reserve = 1
    Hysteresis = 1
    RecoveryChecks = 2
    Quota = 2
    MaxChanges = 2
    MaxSeconds = 5
    MaxWindows = 2
    Grace = 2
    Tolerance = 1
    BandLimit = 2
    Resolutions = {1, 2, 5}
    Batches = {"b1", "b2", "b3"}
    SignalsOf <- SignalsOfDef
    V1Ids = {1, 2}
    Cleaners = {"cleanup"}
    Scenes <- ScenesDef
    PqIds = {1, 2, 3}
    RetryLimit = 1
INVARIANTS CasDeletionHasNoReference PinnedIsKept SettledHasDeadline 
    TimelineIsExact
PROPERTIES TombstoneIsFinal ShortenedWithNotice SummarisedBeforeRemoval
    GCRemovesOnlyMigrated  
CHECK_DEADLOCK FALSE

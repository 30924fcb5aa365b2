SPECIFICATION Spec
CONSTANTS
    File = {0, 1, 2}
    Nr <- OneFilePerStep
    Client = {c1, c2}
    Wants <- EveryFile
    restarts = {0, 1, 3}
    MaxNr = 2
    capacity = 2
    max_simjobs = 2
    sim_kill_threshold = 0
    FakeMeta = TRUE
    Overshoot = 0
    MaxOpenFiles = 2
    MaxCrashes = 1
    MaxJobs = 3
    MaxOpens = 2
INVARIANTS
    TypeOK
    WaitersHaveTheData
    ClosedFilesAreKnown
PROPERTIES
    ImplementsJobQueue
    ImplementsFileCache
CHECK_DEADLOCK FALSE

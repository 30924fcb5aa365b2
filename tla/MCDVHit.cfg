SPECIFICATION Spec
CONSTANTS
    File = {0, 1}
    Nr <- OneFilePerStep
    Client = {c1, c2}
    Wants <- EveryFile
    restarts = {0, 2}
    MaxNr = 1
    capacity = 2
    max_simjobs = 2
    sim_kill_threshold = 0
    FakeMeta = FALSE
    Overshoot = 0
    MaxOpenFiles = 1
    MaxCrashes = 0
    MaxJobs = 2
    MaxOpens = 1
INVARIANTS
    HitsHaveTheData
CHECK_DEADLOCK FALSE

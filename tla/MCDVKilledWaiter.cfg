SPECIFICATION Spec
CONSTANTS
    File = {0, 1, 2}
    Nr <- OneFilePerStep
    Client = {c1, c2}
    Wants <- EveryFile
    restarts = {0, 3}
    MaxNr = 2
    capacity = 3
    max_simjobs = 1
    sim_kill_threshold = 1
    FakeMeta = FALSE
    Overshoot = 0
    MaxOpenFiles = 2
    MaxCrashes = 0
    MaxJobs = 1
    MaxOpens = 1
INVARIANTS
    WaitersHaveASimulation
CHECK_DEADLOCK FALSE

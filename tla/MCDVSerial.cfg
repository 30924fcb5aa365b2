SPECIFICATION FairSpec
CONSTANTS
    File = {0, 1, 2, 3}
    Nr <- OneFilePerStep
    Client = {c1, c2}
    Wants <- EveryFile
    restarts = {0, 3}
    MaxNr = 3
    capacity = 1
    max_simjobs = 1
    sim_kill_threshold = 1
    FakeMeta = FALSE
    Overshoot = 1
    MaxOpenFiles = 1
    MaxCrashes = 0
    MaxJobs = 3
    MaxOpens = 2
INVARIANTS
    WaitersHaveASimulation
    LocksMatchClients
PROPERTIES
    NeverOverwritten
    WaitersAreServed
CHECK_DEADLOCK FALSE

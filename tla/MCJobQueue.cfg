SPECIFICATION FairSpec
CONSTANTS
    Job = {j1, j2, j3, j4, j5}
    max_simjobs = 2
    MaxLost = 1
INVARIANTS
    SlotsMatchJobs
    NoIdleSlot
    FirstInFirstOut
PROPERTIES
    QueuedJobsStart
CHECK_DEADLOCK FALSE

SPECIFICATION PrefetchSpec
CONSTANTS
    MaxNr = 4
    MaxJobs = 2
    Everything = FALSE
    MaxParsims = 2
    MaxLead = 2
    MaxAccesses = 5
INVARIANTS
    TargetsCovered
    StopsBeforeNextRestart
    PartitionsDisjoint
    PrefetchLeavesNoGap
PROPERTIES
    PrefetchFollowsTrajectory
CHECK_DEADLOCK FALSE

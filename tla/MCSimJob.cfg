SPECIFICATION FairSimJobSpec
CONSTANTS
    MaxNr = 5
    sim_kill_threshold = 2
    MaxExtendLeft = 0
    MaxOpen = 1
INVARIANTS
    KilledOnlyWhenServed
    ProducesWhatIsLeft
PROPERTIES
    AwaitedStepsComplete
CHECK_DEADLOCK FALSE

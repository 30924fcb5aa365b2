SPECIFICATION Spec
CONSTANTS
    c1 = c1
    c2 = c2
    dv_status = dv_status
    stop_dv = stop_dv
    r1 = r1
    r2 = r2
    long = long
    colon = colon
    Client = {c1, c2}
    Slow = {c1}
    StatusTool = {dv_status}
    StopTool = {stop_dv}
    PassiveJob = {1}
    Mode = {TRUE, FALSE}
    Calls <- MCCalls
    Unsendable = {long}
    Malformed = {colon}
    Together <- MCTogether
    Key = {k}
    Value = {1}
    MaxRank = 5
    MaxJobs = 1
    MaxCalls = 2
INVARIANTS
    IdsIdentify
    RangesAreComplete
PROPERTIES
    EveryRequestAnswered
    StopIsHonoured
CHECK_DEADLOCK FALSE

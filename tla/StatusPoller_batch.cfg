\* Batches of two out of three shipments, the oldest of them silent.
SPECIFICATION FairSpec
CONSTANTS
    N = 3
    Limit = 2
    MaxRetries = 2
    Status <- MC_Status
    Pending <- MC_Pending
    Edge <- MC_Edge
    Progress <- MC_Progress
    Silent = {1}
    MaxLate = 1
    MaxCuts = 1
    None = None
INVARIANTS
    TypeOK
    BatchStopsOnlyAtALoad
PROPERTIES
    OldestAnsweringIsSelected
    LeavesPending
CHECK_DEADLOCK FALSE
